---- MODULE Spec2Model ----
(***************************************************************************)
(* A model of digest.py (brayvid/news-site): the curation pipeline of one  *)
(* run of main(), and of consecutive runs sharing history.json,            *)
(* content.json and public/digest.html.                                    *)
(*                                                                         *)
(* Text is modelled as a sequence of one-character strings, so that        *)
(* lowercasing, tokenising, stemming, splitting and Python's substring     *)
(* test `x in y` are computed and not assumed.  A Python dict is a         *)
(* sequence of [k, v] records with distinct keys, in insertion order.      *)
(* A pubDate string is <<>> (missing or empty), <<"bad">> (text that       *)
(* parsedate_to_datetime rejects) or <<"rfc", n>> (a date that parses to   *)
(* the instant n, counted in clock ticks).                                 *)
(***************************************************************************)
EXTENDS Integers, Sequences, FiniteSets

VARIABLES
    \* the files and the environment a run starts from
    history_file,      \* history.json
    content_json,      \* content.json, the digest snapshot
    digest_html,       \* public/digest.html, the rendered output
    now,               \* the clock, in ticks
    GEMINI_API_KEY,    \* whether the environment holds the credential
    OVERRIDES,         \* load_overrides: term -> "ban" | "demote"
    MATCH_THRESHOLD,   \* CONFIG["DEDUPLICATION_MATCH_THRESHOLD"], as num/den
    \* main()
    pc,                \* the position of the run in main()
    history,           \* the in-memory history dict
    topic_idx,         \* the position of `for topic_name in TOPIC_WEIGHTS`
    fetched_topic_articles,
    headlines_to_send_to_llm,
    full_articles_map_this_run,
    selected_content_raw_from_llm,
    gemini_processed_content,
    final_digest_for_display_and_state,
    \* what happened in this run and in the earlier ones
    llm,               \* the request to the selector and what it returned
    io,                \* the outcome of each file write of this run
    run,               \* the number of runs started
    shown,             \* titles written to content.json by earlier runs
    \* a function applied on its own
    call,              \* the function and its arguments
    ret                \* <<>> before it returns, <<value>> after

vars == <<history_file, content_json, digest_html, now, GEMINI_API_KEY, OVERRIDES,
          MATCH_THRESHOLD, pc, history, topic_idx, fetched_topic_articles,
          headlines_to_send_to_llm, full_articles_map_this_run,
          selected_content_raw_from_llm, gemini_processed_content,
          final_digest_for_display_and_state, llm, io, run, shown, call, ret>>

---------------------------------------------------------------------------
(* Text *)

LowerChar(c) ==
    CASE c = "A" -> "a"
      [] c = "B" -> "b"
      [] c = "C" -> "c"
      [] OTHER -> c

\* str.lower()
lower(text) == [i \in 1..Len(text) |-> LowerChar(text[i])]

\* the characters \w matches, among those of the model's alphabet
WordChars == {"a", "b", "c", "d", "e", "s", "A", "B", "C"}

\* the characters str.split() splits at
SpaceChars == {" "}

\* the maximal runs of characters of `keep` in text, from position i on
RECURSIVE Runs(_, _, _, _)
Runs(text, i, cur, keep) ==
    IF i > Len(text)
    THEN (IF cur = <<>> THEN <<>> ELSE <<cur>>)
    ELSE IF text[i] \in keep
         THEN Runs(text, i + 1, Append(cur, text[i]), keep)
         ELSE (IF cur = <<>> THEN <<>> ELSE <<cur>>) \o Runs(text, i + 1, <<>>, keep)

Alphabet == WordChars \cup SpaceChars \cup {"!"}

\* re.findall(r'\b\w+\b', text)
findall_words(text) == Runs(text, 1, <<>>, WordChars)

\* str.split()
split(text) == Runs(text, 1, <<>>, Alphabet \ SpaceChars)

\* PorterStemmer.stem followed by WordNetLemmatizer.lemmatize, on the
\* model's words: a plural "s" is removed from a word of two letters or more.
stem(w) == IF Len(w) > 1 /\ w[Len(w)] = "s" THEN SubSeq(w, 1, Len(w) - 1) ELSE w

\* " ".join(words)
RECURSIVE join(_)
join(words) ==
    IF words = <<>> THEN <<>>
    ELSE IF Len(words) = 1 THEN words[1]
    ELSE words[1] \o <<" ">> \o join(Tail(words))

normalize(text) ==
    LET words == findall_words(lower(text))
    IN  join([i \in 1..Len(words) |-> stem(words[i])])

\* Python's `x in y` on strings
IsSubstr(x, y) ==
    \E i \in 0..(Len(y) - Len(x)) : SubSeq(y, i + 1, i + Len(x)) = x

Range(s) == {s[i] : i \in DOMAIN s}

\* set(normalize(text).split())
TokenSet(text) == Range(split(normalize(text)))

---------------------------------------------------------------------------
(* dict *)

Keys(d) == {d[i].k : i \in DOMAIN d}

Has(d, key) == key \in Keys(d)

\* d[key]
Get(d, key) == d[CHOOSE i \in DOMAIN d : d[i].k = key].v

\* d[key] = value
Put(d, key, value) ==
    IF Has(d, key)
    THEN [i \in DOMAIN d |-> IF d[i].k = key THEN [k |-> key, v |-> value] ELSE d[i]]
    ELSE Append(d, [k |-> key, v |-> value])

\* del d[key]
RECURSIVE Del(_, _)
Del(d, key) ==
    IF d = <<>> THEN <<>>
    ELSE IF Head(d).k = key THEN Tail(d)
    ELSE <<Head(d)>> \o Del(Tail(d), key)

\* the values of d, concatenated: every entry under any key
RECURSIVE Flatten(_)
Flatten(d) == IF d = <<>> THEN <<>> ELSE Head(d).v \o Flatten(Tail(d))

---------------------------------------------------------------------------
(* is_in_history *)

\* similarity > MATCH_THRESHOLD: a similarity equal to the threshold is no match
AtLeastThreshold_Strict(intersection_len, union_len) ==
    intersection_len * MATCH_THRESHOLD.den > MATCH_THRESHOLD.num * union_len

\* similarity >= MATCH_THRESHOLD, the quotient and the threshold kept exact
AtLeastThreshold(intersection_len, union_len) ==
    intersection_len * MATCH_THRESHOLD.den >= MATCH_THRESHOLD.num * union_len

\* the two loops of is_in_history over the entries, in dict order
RECURSIVE ScanHistory(_, _)
ScanHistory(norm_title_tokens, past_articles) ==
    IF past_articles = <<>> THEN FALSE
    ELSE LET past_tokens == TokenSet(Head(past_articles).title)
             intersection_len == Cardinality(norm_title_tokens \cap past_tokens)
             union_len == Cardinality(norm_title_tokens \cup past_tokens)
         IN  IF past_tokens = {} THEN ScanHistory(norm_title_tokens, Tail(past_articles))
             ELSE IF union_len = 0 THEN ScanHistory(norm_title_tokens, Tail(past_articles))
             ELSE IF AtLeastThreshold(intersection_len, union_len) THEN TRUE
             ELSE ScanHistory(norm_title_tokens, Tail(past_articles))

\* is_in_history without the return on an empty set of title tokens
is_in_history_NoEmptyCheck(article_title, hist) ==
    ScanHistory(TokenSet(article_title), Flatten(hist))

is_in_history(article_title, hist) ==
    LET norm_title_tokens == TokenSet(article_title)
    IN  IF norm_title_tokens = {} THEN FALSE
        ELSE ScanHistory(norm_title_tokens, Flatten(hist))

---------------------------------------------------------------------------
(* Configuration *)

MAX_TOPICS == 2
MAX_ARTICLES_PER_TOPIC == 2
\* CONFIG["MAX_ARTICLE_HOURS"] and CONFIG["HISTORY_RETENTION_DAYS"], in ticks
MAX_ARTICLE_HOURS == 2
HISTORY_RETENTION_DAYS == 2

\* the topic names of TOPIC_WEIGHTS, in the dict's order: "A B" and "C"
TopicAB == <<"A", " ", "B">>
TopicC == <<"C">>
TOPIC_WEIGHTS == <<TopicAB, TopicC>>

\* the default of CONFIG.get("DEDUPLICATION_MATCH_THRESHOLD", 0.4)
DefaultThreshold == [num |-> 2, den |-> 5]

---------------------------------------------------------------------------
(* Titles, dates, articles *)

tAb == <<"A", "b">>                   \* "Ab"   normalizes to "ab"
tAbBang == <<"a", "b", "!">>          \* "ab!"  normalizes to "ab"
tAbC == <<"a", "b", " ", "c">>        \* "ab c" normalizes to "ab c"
tCs == <<"c", "s">>                   \* "cs"   normalizes to "c"
tBang == <<"!">>                      \* "!"    normalizes to ""
tD == <<"d">>
tEs == <<"e", "s">>                   \* "es"   normalizes to "e"

Date(n) == <<"rfc", n>>
BadDate == <<"bad">>
NoDate == <<>>

\* whether parsedate_to_datetime(pubDate) returns, and the instant it returns
Parses(pubDate) == Len(pubDate) = 2
parsedate_to_datetime(pubDate) == pubDate[2]

Article(title, link, pubDate) == [title |-> title, link |-> link, pubDate |-> pubDate]
Entry(title, pubDate) == [title |-> title, pubDate |-> pubDate]

File(data) == [state |-> "json", data |-> data]
Absent == [state |-> "absent", data |-> <<>>]
Corrupt == [state |-> "corrupt", data |-> <<>>]

---------------------------------------------------------------------------
(* fetch_articles_for_topic *)

\* What the feed of a topic may hold at a run: lists of <<title, age>>, the
\* age of an item being the ticks since its pubDate.
FeedItems ==
    [topic \in {TopicAB, TopicC} |->
        IF topic = TopicAB
        THEN {<<<<tAb, 0>>>>, <<<<tAb, 1>>, <<tCs, 0>>>>, <<<<tBang, 0>>, <<tAbC, 3>>>>,
              <<<<tAbBang, 0>>, <<tAb, 1>>>>}
        ELSE {<<<<tAbBang, 0>>>>, <<<<tCs, 1>>>>, <<<<tBang, 1>>, <<tAb, 0>>, <<tD, 0>>>>}]

\* the loop over the feed's items: an item at or before the cutoff is skipped,
\* the list ends at max_articles
RECURSIVE FetchLoop(_, _, _, _)
FetchLoop(items, topic, max_articles, articles) ==
    IF items = <<>> \/ Len(articles) >= max_articles THEN articles
    ELSE LET pub == now - Head(items)[2]
             time_cutoff == now - MAX_ARTICLE_HOURS
         IN  IF pub <= time_cutoff
             THEN FetchLoop(Tail(items), topic, max_articles, articles)
             ELSE FetchLoop(Tail(items), topic, max_articles,
                            Append(articles, Article(Head(items)[1], topic, Date(pub))))

ARTICLES_TO_FETCH_PER_TOPIC == 2

\* the lists fetch_articles_for_topic(topic, max_articles) may return when the
\* feed holds one of `feeds`; [] when the request or the XML parsing fails
fetch_articles_for_topic(feeds, topic, max_articles) ==
    {<<>>} \cup {FetchLoop(items, topic, max_articles, <<>>) : items \in feeds}

---------------------------------------------------------------------------
(* contains_banned_keyword, and the candidate loop of main *)

\* [k for k, v in OVERRIDES.items() if v == "ban"], then normalize(term) of
\* each term that is not the empty string
RECURSIVE NormalizedBanned(_)
NormalizedBanned(overrides) ==
    IF overrides = <<>> THEN <<>>
    ELSE (IF Head(overrides).v = "ban" /\ Head(overrides).k # <<>>
          THEN <<normalize(Head(overrides).k)>> ELSE <<>>)
         \o NormalizedBanned(Tail(overrides))

normalized_banned_terms == NormalizedBanned(OVERRIDES)

\* a banned term matched against the whole words of the title only
contains_banned_keyword_WholeWord(text, banned_terms) ==
    IF text = <<>> THEN FALSE
    ELSE \E i \in DOMAIN banned_terms :
            banned_terms[i] # <<>> /\ banned_terms[i] \in TokenSet(text)

contains_banned_keyword(text, banned_terms) ==
    IF text = <<>> THEN FALSE
    ELSE LET norm_text == normalize(text)
         IN  \E i \in DOMAIN banned_terms :
                 banned_terms[i] # <<>> /\ IsSubstr(banned_terms[i], norm_text)

\* a lookup whose entry is replaced by every later article of the same key
RECURSIVE CandidateLoop_LastWriter(_, _, _)
CandidateLoop_LastWriter(articles, headlines, map) ==
    IF articles = <<>> THEN [headlines |-> headlines, map |-> map]
    ELSE LET art == Head(articles)
             norm_title_key == normalize(art.title)
         IN  IF is_in_history(art.title, history)
             THEN CandidateLoop_LastWriter(Tail(articles), headlines, map)
             ELSE IF contains_banned_keyword(art.title, normalized_banned_terms)
             THEN CandidateLoop_LastWriter(Tail(articles), headlines, map)
             ELSE CandidateLoop_LastWriter(Tail(articles), Append(headlines, art.title),
                                           Put(map, norm_title_key, art))

\* a lookup whose entry is replaced by an article of the same key of another topic
RECURSIVE CandidateLoop_LaterTopicWins(_, _, _)
CandidateLoop_LaterTopicWins(articles, headlines, map) ==
    IF articles = <<>> THEN [headlines |-> headlines, map |-> map]
    ELSE LET art == Head(articles)
             norm_title_key == normalize(art.title)
         IN  IF is_in_history(art.title, history)
             THEN CandidateLoop_LaterTopicWins(Tail(articles), headlines, map)
             ELSE IF contains_banned_keyword(art.title, normalized_banned_terms)
             THEN CandidateLoop_LaterTopicWins(Tail(articles), headlines, map)
             ELSE CandidateLoop_LaterTopicWins(
                      Tail(articles), Append(headlines, art.title),
                      IF Has(map, norm_title_key) /\ Get(map, norm_title_key).link = art.link
                      THEN map
                      ELSE Put(map, norm_title_key, art))

\* lines 828-839: [headlines, map] after the articles of one topic
RECURSIVE CandidateLoop(_, _, _)
CandidateLoop(articles, headlines, map) ==
    IF articles = <<>> THEN [headlines |-> headlines, map |-> map]
    ELSE LET art == Head(articles)
             norm_title_key == normalize(art.title)
         IN  IF is_in_history(art.title, history)
             THEN CandidateLoop(Tail(articles), headlines, map)
             ELSE IF contains_banned_keyword(art.title, normalized_banned_terms)
             THEN CandidateLoop(Tail(articles), headlines, map)
             ELSE CandidateLoop(Tail(articles), Append(headlines, art.title),
                                IF Has(map, norm_title_key) THEN map
                                ELSE Put(map, norm_title_key, art))

---------------------------------------------------------------------------
(* prioritize_with_gemini, as main sees it *)

\* a topic name the selector may spell differently from TOPIC_WEIGHTS: "a b"
TopicAbLower == <<"a", " ", "b">>

\* the headline lists the selector may return for one topic
HeadlineLists ==
    {<<tAb>>, <<tAbC, tCs, tEs>>, <<tCs, tEs>>, <<tBang, <<"b">>>>, <<tBang, tEs, tAb>>}

\* the topic names of a returned mapping, in its order
TopicOrders ==
    {<<>>, <<TopicAB>>, <<TopicC>>, <<TopicAB, TopicC>>, <<TopicC, TopicAB>>,
     <<TopicAB, TopicC, TopicAbLower>>, <<TopicAbLower, TopicC, TopicAB>>}

\* The mappings prioritize_with_gemini may return from a response it parsed:
\* distinct stripped topic names, each with a non-empty list of distinct strings.
SelectionResults ==
    UNION {{[i \in 1..Len(order) |-> [k |-> order[i], v |-> hs[i]]] :
               hs \in [1..Len(order) -> HeadlineLists]} : order \in TopicOrders}

NoRequest == [status |-> "none", requests |-> 0, returned |-> <<>>]

---------------------------------------------------------------------------
(* main, lines 859-907: the caps and the reconciliation *)

\* the fallback taking the last match of the lookup
FallbackIndex_LastMatch(norm_llm_title, map, seen) ==
    LET hits == {i \in DOMAIN map :
                    /\ (IsSubstr(norm_llm_title, map[i].k) \/ IsSubstr(map[i].k, norm_llm_title))
                    /\ map[i].k \notin seen}
    IN  IF hits = {} THEN 0 ELSE CHOOSE i \in hits : \A j \in hits : i >= j

\* the first lookup entry, in the dict's order, that contains norm_llm_title
\* or is contained in it and is not in seen; 0 when there is none
FallbackIndex(norm_llm_title, map, seen) ==
    LET hits == {i \in DOMAIN map :
                    /\ (IsSubstr(norm_llm_title, map[i].k) \/ IsSubstr(map[i].k, norm_llm_title))
                    /\ map[i].k \notin seen}
    IN  IF hits = {} THEN 0 ELSE CHOOSE i \in hits : \A j \in hits : i <= j

\* the fallback match emitted without recording its key in seen
RECURSIVE ReconcileTitles_FallbackUnseen(_, _, _, _)
ReconcileTitles_FallbackUnseen(titles_from_llm, map, articles, seen) ==
    IF titles_from_llm = <<>> THEN [articles |-> articles, seen |-> seen]
    ELSE LET norm_llm_title == normalize(Head(titles_from_llm))
             rest == Tail(titles_from_llm)
             fb == FallbackIndex(norm_llm_title, map, seen)
         IN  IF norm_llm_title = <<>>
             THEN ReconcileTitles_FallbackUnseen(rest, map, articles, seen)
             ELSE IF norm_llm_title \in seen
             THEN ReconcileTitles_FallbackUnseen(rest, map, articles, seen)
             ELSE IF Has(map, norm_llm_title)
             THEN ReconcileTitles_FallbackUnseen(rest, map,
                                                 Append(articles, Get(map, norm_llm_title)),
                                                 seen \cup {norm_llm_title})
             ELSE IF fb # 0
             THEN ReconcileTitles_FallbackUnseen(rest, map, Append(articles, map[fb].v), seen)
             ELSE ReconcileTitles_FallbackUnseen(rest, map, articles, seen)

\* lines 877-904: [articles, seen] after the headlines of one topic
RECURSIVE ReconcileTitles(_, _, _, _)
ReconcileTitles(titles_from_llm, map, articles, seen) ==
    IF titles_from_llm = <<>> THEN [articles |-> articles, seen |-> seen]
    ELSE LET norm_llm_title == normalize(Head(titles_from_llm))
             rest == Tail(titles_from_llm)
             fb == FallbackIndex(norm_llm_title, map, seen)
         IN  IF norm_llm_title = <<>> THEN ReconcileTitles(rest, map, articles, seen)
             ELSE IF norm_llm_title \in seen THEN ReconcileTitles(rest, map, articles, seen)
             ELSE IF Has(map, norm_llm_title)
             THEN ReconcileTitles(rest, map, Append(articles, Get(map, norm_llm_title)),
                                  seen \cup {norm_llm_title})
             ELSE IF fb # 0
             THEN ReconcileTitles(rest, map, Append(articles, map[fb].v),
                                  seen \cup {map[fb].k})
             ELSE ReconcileTitles(rest, map, articles, seen)

\* the headlines of a topic taken without the slice
TruncateTitles_NoCap(titles) == titles

\* titles_from_llm_untruncated[:MAX_ARTICLES_PER_TOPIC]
TruncateTitles(titles) ==
    SubSeq(titles, 1, IF Len(titles) > MAX_ARTICLES_PER_TOPIC
                      THEN MAX_ARTICLES_PER_TOPIC ELSE Len(titles))

\* dict(list(selected.items())[:MAX_TOPICS]) when len(selected) > MAX_TOPICS
TruncateTopics(selected) ==
    IF Len(selected) > MAX_TOPICS THEN SubSeq(selected, 1, MAX_TOPICS) ELSE selected

\* the cap applied to the articles of a topic, after its headlines were resolved
RECURSIVE ReconcileTopics_CapAfterFiltering(_, _, _, _)
ReconcileTopics_CapAfterFiltering(selected, map, processed, seen) ==
    IF selected = <<>> THEN processed
    ELSE LET r == ReconcileTitles(Head(selected).v, map, <<>>, seen)
         IN  ReconcileTopics_CapAfterFiltering(
                 Tail(selected), map,
                 IF r.articles # <<>>
                 THEN Put(processed, Head(selected).k, TruncateTitles(r.articles))
                 ELSE processed,
                 r.seen)

\* lines 867-907: gemini_processed_content after the topics of `selected`
RECURSIVE ReconcileTopics(_, _, _, _)
ReconcileTopics(selected, map, processed, seen) ==
    IF selected = <<>> THEN processed
    ELSE LET r == ReconcileTitles(TruncateTitles(Head(selected).v), map, <<>>, seen)
         IN  ReconcileTopics(Tail(selected), map,
                             IF r.articles # <<>>
                             THEN Put(processed, Head(selected).k, r.articles)
                             ELSE processed,
                             r.seen)

---------------------------------------------------------------------------
(* main, lines 910-935: the order of the topics *)

\* datetime.min, before every instant of the clock
DatetimeMin == -1

SortKey(articles) ==
    IF Parses(articles[1].pubDate) THEN parsedate_to_datetime(articles[1].pubDate)
    ELSE DatetimeMin

\* a sort that puts the oldest first
RECURSIVE InsertDesc_Ascending(_, _)
InsertDesc_Ascending(sorted, item) ==
    IF sorted = <<>> THEN <<item>>
    ELSE IF SortKey(Head(sorted).v) <= SortKey(item.v)
         THEN <<Head(sorted)>> \o InsertDesc_Ascending(Tail(sorted), item)
         ELSE <<item>> \o sorted

\* list.sort(key, reverse=True): stable, an item goes after the items placed
\* before it whose key is at least its own
RECURSIVE InsertDesc(_, _)
InsertDesc(sorted, item) ==
    IF sorted = <<>> THEN <<item>>
    ELSE IF SortKey(Head(sorted).v) >= SortKey(item.v)
         THEN <<Head(sorted)>> \o InsertDesc(Tail(sorted), item)
         ELSE <<item>> \o sorted

RECURSIVE SortTopics(_, _)
SortTopics(processed, sorted) ==
    IF processed = <<>> THEN sorted
    ELSE SortTopics(Tail(processed),
                    IF Head(processed).v = <<>> THEN sorted
                    ELSE InsertDesc(sorted, Head(processed)))

\* the snapshot built on top of the one already on disk
content_json_to_save_Merged(final) ==
    (IF content_json.state = "json" THEN content_json.data ELSE <<>>)
    \o [i \in DOMAIN final |->
           [k |-> final[i].k, v |-> [articles |-> final[i].v, last_updated_ts |-> now]]]

\* lines 940-948
content_json_to_save(final) ==
    [i \in DOMAIN final |->
        [k |-> final[i].k, v |-> [articles |-> final[i].v, last_updated_ts |-> now]]]

---------------------------------------------------------------------------
(* update_history_file *)

\* topic.lower().replace(" ", "_")
history_key(topic) ==
    [i \in DOMAIN topic |-> IF topic[i] = " " THEN "_" ELSE LowerChar(topic[i])]

\* the membership test of line 617 inverted: only known titles are appended
RECURSIVE AppendArticles_OnlyKnown(_, _, _)
AppendArticles_OnlyKnown(articles, entries, existing_norm_titles) ==
    IF articles = <<>> THEN entries
    ELSE LET norm_title == normalize(Head(articles).title)
         IN  IF norm_title \in existing_norm_titles
             THEN AppendArticles_OnlyKnown(Tail(articles),
                                           Append(entries, Entry(Head(articles).title,
                                                                 Head(articles).pubDate)),
                                           existing_norm_titles)
             ELSE AppendArticles_OnlyKnown(Tail(articles), entries, existing_norm_titles)

\* lines 614-621: the entries of one key after the articles of one topic
RECURSIVE AppendArticles(_, _, _)
AppendArticles(articles, entries, existing_norm_titles) ==
    IF articles = <<>> THEN entries
    ELSE LET norm_title == normalize(Head(articles).title)
         IN  IF norm_title \notin existing_norm_titles
             THEN AppendArticles(Tail(articles),
                                 Append(entries, Entry(Head(articles).title, Head(articles).pubDate)),
                                 existing_norm_titles \cup {norm_title})
             ELSE AppendArticles(Tail(articles), entries, existing_norm_titles)

\* an article appended only when no entry under any key has its normalized title
RECURSIVE AppendSelected_GlobalDedup(_, _)
AppendSelected_GlobalDedup(newly_selected, current_history) ==
    IF newly_selected = <<>> THEN current_history
    ELSE LET key == history_key(Head(newly_selected).k)
             with_key == IF Has(current_history, key) THEN current_history
                         ELSE Put(current_history, key, <<>>)
             entries == Get(with_key, key)
             existing == {normalize(e.title) : e \in Range(Flatten(current_history))}
         IN  AppendSelected_GlobalDedup(
                 Tail(newly_selected),
                 Put(with_key, key, AppendArticles(Head(newly_selected).v, entries, existing)))

\* lines 607-621
RECURSIVE AppendSelected(_, _)
AppendSelected(newly_selected, current_history) ==
    IF newly_selected = <<>> THEN current_history
    ELSE LET key == history_key(Head(newly_selected).k)
             with_key == IF Has(current_history, key) THEN current_history
                         ELSE Put(current_history, key, <<>>)
             entries == Get(with_key, key)
             existing == {normalize(entries[i].title) : i \in DOMAIN entries}
         IN  AppendSelected(Tail(newly_selected),
                            Put(with_key, key, AppendArticles(Head(newly_selected).v, entries, existing)))

\* pub_dt_utc > time_limit_utc: an entry exactly at the limit is dropped
KeepsEntry_Strict(article_entry, time_limit_utc) ==
    IF article_entry.pubDate = <<>> THEN TRUE
    ELSE IF ~Parses(article_entry.pubDate) THEN TRUE
    ELSE parsedate_to_datetime(article_entry.pubDate) > time_limit_utc

\* lines 629-643: whether the pruning loop keeps an entry
KeepsEntry(article_entry, time_limit_utc) ==
    IF article_entry.pubDate = <<>> THEN TRUE
    ELSE IF ~Parses(article_entry.pubDate) THEN TRUE
    ELSE parsedate_to_datetime(article_entry.pubDate) >= time_limit_utc

RECURSIVE KeptEntries(_, _)
KeptEntries(entries, time_limit_utc) ==
    IF entries = <<>> THEN <<>>
    ELSE (IF KeepsEntry(Head(entries), time_limit_utc) THEN <<Head(entries)>> ELSE <<>>)
         \o KeptEntries(Tail(entries), time_limit_utc)

\* a key left in the history with the empty list when all its entries are pruned
RECURSIVE PruneKeys_KeepsEmptyKeys(_, _, _)
PruneKeys_KeepsEmptyKeys(keys, current_history, time_limit_utc) ==
    IF keys = <<>> THEN current_history
    ELSE PruneKeys_KeepsEmptyKeys(
             Tail(keys),
             Put(current_history, Head(keys),
                 KeptEntries(Get(current_history, Head(keys)), time_limit_utc)),
             time_limit_utc)

\* lines 623-649, over list(current_history.keys())
RECURSIVE PruneKeys(_, _, _)
PruneKeys(keys, current_history, time_limit_utc) ==
    IF keys = <<>> THEN current_history
    ELSE LET updated == KeptEntries(Get(current_history, Head(keys)), time_limit_utc)
         IN  PruneKeys(Tail(keys),
                       IF updated # <<>> THEN Put(current_history, Head(keys), updated)
                       ELSE Del(current_history, Head(keys)),
                       time_limit_utc)

\* update_history_file returning at line 605 when nothing was selected
PruneHistory_OnlyAfterSelection(current_history) ==
    IF final_digest_for_display_and_state = <<>> THEN current_history
    ELSE PruneKeys([i \in DOMAIN current_history |-> current_history[i].k], current_history,
                   now - HISTORY_RETENTION_DAYS)

PruneHistory(current_history) ==
    PruneKeys([i \in DOMAIN current_history |-> current_history[i].k], current_history,
              now - HISTORY_RETENTION_DAYS)

---------------------------------------------------------------------------
(* The state a run starts from *)

MaxRuns == 3

NoWrites == [html |-> "none", snapshot |-> "none", history |-> "none"]

\* history.json as earlier runs or an editor may have left it: missing, not
\* JSON, or a dict of entries.  At the first run the clock shows
\* HISTORY_RETENTION_DAYS + 1, so Date(0) is older than the retention limit
\* and Date(1) is exactly at it.
StartTime == HISTORY_RETENTION_DAYS + 1

HistoryWithOldEntries ==
    File(<<[k |-> <<"e">>, v |-> <<Entry(tEs, Date(0))>>],
           [k |-> <<"d">>, v |-> <<Entry(tD, Date(1)), Entry(tEs, BadDate),
                                   Entry(<<>>, NoDate), Entry(tD, Date(0))>>]>>)

HistoryWithAb ==
    File(<<[k |-> <<"c">>, v |-> <<Entry(tAbBang, Date(StartTime))>>]>>)

\* an entry under the key of the topic "A B" whose title normalizes to ""
HistoryWithBang ==
    File(<<[k |-> history_key(TopicAB), v |-> <<Entry(tBang, Date(StartTime))>>]>>)

InitialHistoryFiles ==
    {Absent, Corrupt, HistoryWithOldEntries, HistoryWithAb, HistoryWithBang}

\* content.json and digest.html as an earlier run left them
PreviousDigest == <<[k |-> TopicC, v |-> <<Article(tD, TopicC, Date(1))>>]>>

PreviousSnapshot ==
    File(<<[k |-> TopicC, v |-> [articles |-> PreviousDigest[1].v, last_updated_ts |-> 1]]>>)

PreviousHtml == [state |-> "html", data |-> PreviousDigest, ts |-> 1]

NoHtml == [state |-> "absent", data |-> <<>>, ts |-> 0]

\* the overrides sheet: "b" banned and "c" demoted, or only "!" banned
InitialOverrides ==
    {<<[k |-> <<"b">>, v |-> "ban"], [k |-> <<"c">>, v |-> "demote"]>>,
     <<[k |-> <<"!">>, v |-> "ban"]>>}

NoCall == [fn |-> "none", article_title |-> <<>>]

RunStart ==
    /\ pc = "load"
    /\ history = <<>>
    /\ topic_idx = 1
    /\ fetched_topic_articles = <<>>
    /\ headlines_to_send_to_llm = <<>>
    /\ full_articles_map_this_run = <<>>
    /\ selected_content_raw_from_llm = <<>>
    /\ gemini_processed_content = <<>>
    /\ final_digest_for_display_and_state = <<>>
    /\ llm = NoRequest
    /\ io = NoWrites

Init ==
    /\ history_file \in InitialHistoryFiles
    /\ \/ content_json = Absent /\ digest_html = NoHtml
       \/ content_json = PreviousSnapshot /\ digest_html = PreviousHtml
    /\ now = StartTime
    /\ GEMINI_API_KEY \in BOOLEAN
    /\ OVERRIDES \in InitialOverrides
    /\ MATCH_THRESHOLD = DefaultThreshold
    /\ RunStart
    /\ run = 1
    /\ shown = {}
    /\ call = NoCall
    /\ ret = <<>>

---------------------------------------------------------------------------
(* main *)

\* a history file that cannot be decoded ending the run
LoadHistory_CorruptIsFatal ==
    /\ pc = "load"
    /\ history' = IF history_file.state = "json" THEN history_file.data ELSE <<>>
    /\ pc' = IF history_file.state = "corrupt" THEN "done" ELSE "credential"
    /\ UNCHANGED <<history_file, content_json, digest_html, now, GEMINI_API_KEY, OVERRIDES,
                   MATCH_THRESHOLD, topic_idx, fetched_topic_articles,
                   headlines_to_send_to_llm, full_articles_map_this_run,
                   selected_content_raw_from_llm, gemini_processed_content,
                   final_digest_for_display_and_state, llm, io, run, shown, call, ret>>

\* lines 796-804
LoadHistory ==
    /\ pc = "load"
    /\ history' = IF history_file.state = "json" THEN history_file.data ELSE <<>>
    /\ pc' = "credential"
    /\ UNCHANGED <<history_file, content_json, digest_html, now, GEMINI_API_KEY, OVERRIDES,
                   MATCH_THRESHOLD, topic_idx, fetched_topic_articles,
                   headlines_to_send_to_llm, full_articles_map_this_run,
                   selected_content_raw_from_llm, gemini_processed_content,
                   final_digest_for_display_and_state, llm, io, run, shown, call, ret>>

\* the run going on to the fetches without the credential
CheckCredential_GoesOn ==
    /\ pc = "credential"
    /\ pc' = "fetch"
    /\ UNCHANGED <<history_file, content_json, digest_html, now, GEMINI_API_KEY, OVERRIDES,
                   MATCH_THRESHOLD, history, topic_idx, fetched_topic_articles,
                   headlines_to_send_to_llm, full_articles_map_this_run,
                   selected_content_raw_from_llm, gemini_processed_content,
                   final_digest_for_display_and_state, llm, io, run, shown, call, ret>>

\* lines 808-822: sys.exit(1) without the credential
CheckCredential ==
    /\ pc = "credential"
    /\ pc' = IF GEMINI_API_KEY THEN "fetch" ELSE "done"
    /\ UNCHANGED <<history_file, content_json, digest_html, now, GEMINI_API_KEY, OVERRIDES,
                   MATCH_THRESHOLD, history, topic_idx, fetched_topic_articles,
                   headlines_to_send_to_llm, full_articles_map_this_run,
                   selected_content_raw_from_llm, gemini_processed_content,
                   final_digest_for_display_and_state, llm, io, run, shown, call, ret>>

\* line 825, the feed of the topic holding one of feeds[topic]
FetchFrom(feeds) ==
    /\ pc = "fetch"
    /\ \E articles \in fetch_articles_for_topic(feeds[TOPIC_WEIGHTS[topic_idx]],
                                                TOPIC_WEIGHTS[topic_idx],
                                                ARTICLES_TO_FETCH_PER_TOPIC) :
           fetched_topic_articles' = articles
    /\ pc' = "filter"
    /\ UNCHANGED <<history_file, content_json, digest_html, now, GEMINI_API_KEY, OVERRIDES,
                   MATCH_THRESHOLD, history, topic_idx,
                   headlines_to_send_to_llm, full_articles_map_this_run,
                   selected_content_raw_from_llm, gemini_processed_content,
                   final_digest_for_display_and_state, llm, io, run, shown, call, ret>>

\* the topic recorded whatever the filters left of it
AddTopicHeadlines_Always(sent, topic_name, fetched, current_topic_headlines_for_llm) ==
    Put(sent, topic_name, current_topic_headlines_for_llm)

\* lines 826-827 and 841-842: headlines_to_send_to_llm after one topic
AddTopicHeadlines(sent, topic_name, fetched, current_topic_headlines_for_llm) ==
    IF fetched # <<>> /\ current_topic_headlines_for_llm # <<>>
    THEN Put(sent, topic_name, current_topic_headlines_for_llm)
    ELSE sent

\* the history pruned while the candidates of a topic are gathered
FilterTopic_PrunesHistory ==
    /\ pc = "filter"
    /\ LET r == CandidateLoop(fetched_topic_articles, <<>>, full_articles_map_this_run)
       IN  /\ full_articles_map_this_run' = r.map
           /\ headlines_to_send_to_llm' =
                  AddTopicHeadlines(headlines_to_send_to_llm, TOPIC_WEIGHTS[topic_idx],
                                    fetched_topic_articles, r.headlines)
    /\ history' = PruneHistory(history)
    /\ topic_idx' = topic_idx + 1
    /\ pc' = IF topic_idx = Len(TOPIC_WEIGHTS) THEN "select" ELSE "fetch"
    /\ UNCHANGED <<history_file, content_json, digest_html, now, GEMINI_API_KEY, OVERRIDES,
                   MATCH_THRESHOLD, fetched_topic_articles,
                   selected_content_raw_from_llm, gemini_processed_content,
                   final_digest_for_display_and_state, llm, io, run, shown, call, ret>>

\* lines 826-842
FilterTopic ==
    /\ pc = "filter"
    /\ LET r == CandidateLoop(fetched_topic_articles, <<>>, full_articles_map_this_run)
       IN  /\ full_articles_map_this_run' = r.map
           /\ headlines_to_send_to_llm' =
                  AddTopicHeadlines(headlines_to_send_to_llm, TOPIC_WEIGHTS[topic_idx],
                                    fetched_topic_articles, r.headlines)
    /\ topic_idx' = topic_idx + 1
    /\ pc' = IF topic_idx = Len(TOPIC_WEIGHTS) THEN "select" ELSE "fetch"
    /\ UNCHANGED <<history_file, content_json, digest_html, now, GEMINI_API_KEY, OVERRIDES,
                   MATCH_THRESHOLD, history, fetched_topic_articles,
                   selected_content_raw_from_llm, gemini_processed_content,
                   final_digest_for_display_and_state, llm, io, run, shown, call, ret>>

\* a selection that asks a second time when the first request has failed
SelectFrom_RetriesOnFailure(results) ==
    /\ pc = "select"
    /\ \/ /\ headlines_to_send_to_llm = <<>>
          /\ llm' = llm
          /\ selected_content_raw_from_llm' = <<>>
          /\ pc' = "sort"
       \/ /\ headlines_to_send_to_llm # <<>>
          /\ \E r \in results :
                /\ llm' = [status |-> IF r = <<>> THEN "empty" ELSE "answered",
                           requests |-> llm.requests + 2, returned |-> r]
                /\ selected_content_raw_from_llm' = r
                /\ pc' = IF r = <<>> THEN "sort" ELSE "reconcile"
       \/ /\ headlines_to_send_to_llm # <<>>
          /\ \E r \in results :
                /\ llm' = [status |-> IF r = <<>> THEN "empty" ELSE "answered",
                           requests |-> llm.requests + 1, returned |-> r]
                /\ selected_content_raw_from_llm' = r
                /\ pc' = IF r = <<>> THEN "sort" ELSE "reconcile"
    /\ UNCHANGED <<history_file, content_json, digest_html, now, GEMINI_API_KEY, OVERRIDES,
                   MATCH_THRESHOLD, history, topic_idx, fetched_topic_articles,
                   headlines_to_send_to_llm, full_articles_map_this_run,
                   gemini_processed_content,
                   final_digest_for_display_and_state, io, run, shown, call, ret>>

\* lines 847-856: no request without candidates; else one call of
\* prioritize_with_gemini, which returns {} when the request or the handling
\* of the response raises ("failed"), {} when the response holds no usable
\* entry ("empty"), and the parsed mapping otherwise ("answered")
SelectFrom(results) ==
    /\ pc = "select"
    /\ \/ /\ headlines_to_send_to_llm = <<>>
          /\ llm' = llm
          /\ selected_content_raw_from_llm' = <<>>
          /\ pc' = "sort"
       \/ /\ headlines_to_send_to_llm # <<>>
          /\ llm' = [status |-> "failed", requests |-> llm.requests + 1, returned |-> <<>>]
          /\ selected_content_raw_from_llm' = <<>>
          /\ pc' = "sort"
       \/ /\ headlines_to_send_to_llm # <<>>
          /\ \E r \in results :
                /\ llm' = [status |-> IF r = <<>> THEN "empty" ELSE "answered",
                           requests |-> llm.requests + 1, returned |-> r]
                /\ selected_content_raw_from_llm' = r
                /\ pc' = IF r = <<>> THEN "sort" ELSE "reconcile"
    /\ UNCHANGED <<history_file, content_json, digest_html, now, GEMINI_API_KEY, OVERRIDES,
                   MATCH_THRESHOLD, history, topic_idx, fetched_topic_articles,
                   headlines_to_send_to_llm, full_articles_map_this_run,
                   gemini_processed_content,
                   final_digest_for_display_and_state, io, run, shown, call, ret>>

\* lines 859-907
Reconcile ==
    /\ pc = "reconcile"
    /\ selected_content_raw_from_llm' = TruncateTopics(selected_content_raw_from_llm)
    /\ gemini_processed_content' =
           ReconcileTopics(TruncateTopics(selected_content_raw_from_llm),
                           full_articles_map_this_run, <<>>, {})
    /\ pc' = "sort"
    /\ UNCHANGED <<history_file, content_json, digest_html, now, GEMINI_API_KEY, OVERRIDES,
                   MATCH_THRESHOLD, history, topic_idx, fetched_topic_articles,
                   headlines_to_send_to_llm, full_articles_map_this_run,
                   final_digest_for_display_and_state, llm, io, run, shown, call, ret>>

\* lines 910-935
Sort ==
    /\ pc = "sort"
    /\ final_digest_for_display_and_state' = SortTopics(gemini_processed_content, <<>>)
    /\ pc' = "write"
    \* nothing below line 935 reads these
    /\ fetched_topic_articles' = <<>>
    /\ headlines_to_send_to_llm' = <<>>
    /\ full_articles_map_this_run' = <<>>
    /\ selected_content_raw_from_llm' = <<>>
    /\ llm' = [llm EXCEPT !.returned = <<>>]
    /\ UNCHANGED <<history_file, content_json, digest_html, now, GEMINI_API_KEY, OVERRIDES,
                   MATCH_THRESHOLD, history, topic_idx, gemini_processed_content,
                   io, run, shown, call, ret>>

\* a failed write of content.json ending the run
WriteOutputs_SnapshotFailureAborts ==
    /\ pc = "write"
    /\ \E html_ok, snapshot_ok \in BOOLEAN :
          IF final_digest_for_display_and_state # <<>>
          THEN IF html_ok
               THEN /\ digest_html' = [state |-> "html",
                                       data |-> final_digest_for_display_and_state,
                                       ts |-> now]
                    /\ content_json' =
                           IF snapshot_ok
                           THEN File(content_json_to_save(final_digest_for_display_and_state))
                           ELSE content_json
                    /\ io' = [io EXCEPT !.html = "ok",
                                        !.snapshot = IF snapshot_ok THEN "ok" ELSE "failed"]
                    /\ pc' = IF snapshot_ok THEN "append" ELSE "done"
               ELSE /\ io' = [io EXCEPT !.html = "failed"]
                    /\ pc' = "done"
                    /\ UNCHANGED <<digest_html, content_json>>
          ELSE /\ content_json' = IF snapshot_ok THEN File(<<>>) ELSE content_json
               /\ io' = [io EXCEPT !.snapshot = IF snapshot_ok THEN "ok" ELSE "failed"]
               /\ pc' = IF snapshot_ok THEN "append" ELSE "done"
               /\ UNCHANGED digest_html
    /\ UNCHANGED <<history_file, now, GEMINI_API_KEY, OVERRIDES,
                   MATCH_THRESHOLD, history, topic_idx, fetched_topic_articles,
                   headlines_to_send_to_llm, full_articles_map_this_run,
                   selected_content_raw_from_llm, gemini_processed_content,
                   final_digest_for_display_and_state, llm, run, shown, call, ret>>

\* write_digest_html called whatever the digest holds
WriteOutputs_AlwaysRenders ==
    /\ pc = "write"
    /\ \E html_ok, snapshot_ok \in BOOLEAN :
          IF html_ok
          THEN /\ digest_html' = [state |-> "html",
                                  data |-> final_digest_for_display_and_state,
                                  ts |-> now]
               /\ content_json' =
                      IF snapshot_ok
                      THEN File(content_json_to_save(final_digest_for_display_and_state))
                      ELSE content_json
               /\ io' = [io EXCEPT !.html = "ok",
                                   !.snapshot = IF snapshot_ok THEN "ok" ELSE "failed"]
               /\ pc' = "append"
          ELSE /\ io' = [io EXCEPT !.html = "failed"]
               /\ pc' = "done"
               /\ UNCHANGED <<digest_html, content_json>>
    /\ UNCHANGED <<history_file, now, GEMINI_API_KEY, OVERRIDES,
                   MATCH_THRESHOLD, history, topic_idx, fetched_topic_articles,
                   headlines_to_send_to_llm, full_articles_map_this_run,
                   selected_content_raw_from_llm, gemini_processed_content,
                   final_digest_for_display_and_state, llm, run, shown, call, ret>>

\* lines 939-972.  open() or write() may fail.  A failure in write_digest_html
\* is not caught there: it reaches the handler at line 981 and the run ends.
\* A failure on content.json is caught and logged.
WriteOutputs ==
    /\ pc = "write"
    /\ \E html_ok, snapshot_ok \in BOOLEAN :
          IF final_digest_for_display_and_state # <<>>
          THEN IF html_ok
               THEN /\ digest_html' = [state |-> "html",
                                       data |-> final_digest_for_display_and_state,
                                       ts |-> now]
                    /\ content_json' =
                           IF snapshot_ok
                           THEN File(content_json_to_save(final_digest_for_display_and_state))
                           ELSE content_json
                    /\ io' = [io EXCEPT !.html = "ok",
                                        !.snapshot = IF snapshot_ok THEN "ok" ELSE "failed"]
                    /\ pc' = "append"
               ELSE /\ io' = [io EXCEPT !.html = "failed"]
                    /\ pc' = "done"
                    /\ UNCHANGED <<digest_html, content_json>>
          ELSE /\ content_json' = IF snapshot_ok THEN File(<<>>) ELSE content_json
               /\ io' = [io EXCEPT !.snapshot = IF snapshot_ok THEN "ok" ELSE "failed"]
               /\ pc' = "append"
               /\ UNCHANGED digest_html
    /\ UNCHANGED <<history_file, now, GEMINI_API_KEY, OVERRIDES,
                   MATCH_THRESHOLD, history, topic_idx, fetched_topic_articles,
                   headlines_to_send_to_llm, full_articles_map_this_run,
                   selected_content_raw_from_llm, gemini_processed_content,
                   final_digest_for_display_and_state, llm, run, shown, call, ret>>

\* update_history_file, lines 607-621
HistoryAppend ==
    /\ pc = "append"
    /\ history' = AppendSelected(final_digest_for_display_and_state, history)
    /\ pc' = "prune"
    /\ UNCHANGED <<history_file, content_json, digest_html, now, GEMINI_API_KEY, OVERRIDES,
                   MATCH_THRESHOLD, topic_idx, fetched_topic_articles,
                   headlines_to_send_to_llm, full_articles_map_this_run,
                   selected_content_raw_from_llm, gemini_processed_content,
                   final_digest_for_display_and_state, llm, io, run, shown, call, ret>>

\* update_history_file, lines 623-649
HistoryPrune ==
    /\ pc = "prune"
    /\ history' = PruneHistory(history)
    /\ pc' = "persist"
    /\ UNCHANGED <<history_file, content_json, digest_html, now, GEMINI_API_KEY, OVERRIDES,
                   MATCH_THRESHOLD, topic_idx, fetched_topic_articles,
                   headlines_to_send_to_llm, full_articles_map_this_run,
                   selected_content_raw_from_llm, gemini_processed_content,
                   final_digest_for_display_and_state, llm, io, run, shown, call, ret>>

\* update_history_file, lines 651-656: an IOError is logged
HistoryWrite ==
    /\ pc = "persist"
    /\ \E history_ok \in BOOLEAN :
          /\ history_file' = IF history_ok THEN File(history) ELSE history_file
          /\ io' = [io EXCEPT !.history = IF history_ok THEN "ok" ELSE "failed"]
    /\ pc' = "done"
    /\ UNCHANGED <<content_json, digest_html, now, GEMINI_API_KEY, OVERRIDES,
                   MATCH_THRESHOLD, history, topic_idx, fetched_topic_articles,
                   headlines_to_send_to_llm, full_articles_map_this_run,
                   selected_content_raw_from_llm, gemini_processed_content,
                   final_digest_for_display_and_state, llm, run, shown, call, ret>>

\* the titles of the articles of a digest
DigestTitles(digest) ==
    UNION {{digest[i].v[j].title : j \in DOMAIN digest[i].v} : i \in DOMAIN digest}

\* The scheduler starts the next run after this one has ended, a tick later
\* or once the retention time has gone by.
NextRun ==
    /\ pc = "done"
    /\ run < MaxRuns
    /\ run' = run + 1
    /\ \E d \in {1, HISTORY_RETENTION_DAYS + 1} : now' = now + d
    /\ shown' = IF io.snapshot = "ok"
                THEN shown \cup DigestTitles(final_digest_for_display_and_state)
                ELSE shown
    /\ pc' = "load"
    /\ history' = <<>>
    /\ topic_idx' = 1
    /\ fetched_topic_articles' = <<>>
    /\ headlines_to_send_to_llm' = <<>>
    /\ full_articles_map_this_run' = <<>>
    /\ selected_content_raw_from_llm' = <<>>
    /\ gemini_processed_content' = <<>>
    /\ final_digest_for_display_and_state' = <<>>
    /\ llm' = NoRequest
    /\ io' = NoWrites
    /\ UNCHANGED <<history_file, content_json, digest_html, GEMINI_API_KEY, OVERRIDES,
                   MATCH_THRESHOLD, call, ret>>

FetchTopic == FetchFrom(FeedItems)

Select == SelectFrom(SelectionResults)

\* one run of main()
Next ==
    \/ LoadHistory
    \/ CheckCredential
    \/ FetchTopic
    \/ FilterTopic
    \/ Select
    \/ Reconcile
    \/ Sort
    \/ WriteOutputs
    \/ HistoryAppend
    \/ HistoryPrune
    \/ HistoryWrite

Spec == Init /\ [][Next]_vars

---------------------------------------------------------------------------
(* Consecutive runs *)

\* the feeds and the selector's answers over consecutive runs
FewFeedItems ==
    [topic \in {TopicAB, TopicC} |->
        IF topic = TopicAB THEN {<<<<tAb, 0>>>>, <<<<tBang, 0>>>>}
        ELSE {<<<<tAbBang, 0>>>>}]

FewSelectionResults ==
    {<<>>, <<[k |-> TopicAB, v |-> <<tAb>>]>>, <<[k |-> TopicC, v |-> <<tEs>>]>>}

InitRuns ==
    /\ Init
    /\ history_file \in {Absent, HistoryWithAb}
    /\ content_json = PreviousSnapshot
    /\ GEMINI_API_KEY
    /\ OVERRIDES = <<[k |-> <<"!">>, v |-> "ban"]>>

NextRuns ==
    \/ LoadHistory
    \/ CheckCredential
    \/ FetchFrom(FewFeedItems)
    \/ FilterTopic
    \/ SelectFrom(FewSelectionResults)
    \/ Reconcile
    \/ Sort
    \/ WriteOutputs
    \/ HistoryAppend
    \/ HistoryPrune
    \/ HistoryWrite
    \/ NextRun

SpecRuns == InitRuns /\ [][NextRuns]_vars

---------------------------------------------------------------------------
(* is_in_history applied on its own *)

uABC == <<"a", " ", "b", " ", "c">>
uABDE == <<"a", " ", "b", " ", "d", " ", "e">>

Thresholds ==
    {[num |-> 0, den |-> 1], [num |-> 2, den |-> 5], [num |-> 1, den |-> 2],
     [num |-> 1, den |-> 1]}

IsInHistoryTitles == {<<>>, tBang, tAb, tAbC, uABC, tCs}

PastTitles == {<<>>, tBang, tAb, uABDE, tCs}

PastLists(n) ==
    UNION {[1..m -> {Entry(t, NoDate) : t \in PastTitles}] : m \in 0..n}

MaxPastEntries == 2

IsInHistoryHistories ==
    {<<>>} \cup {<<[k |-> <<"c">>, v |-> es1], [k |-> <<"d">>, v |-> es2]>> :
                    es1 \in PastLists(MaxPastEntries), es2 \in PastLists(1)}

InitIsInHistory ==
    /\ history_file = Absent
    /\ content_json = Absent
    /\ digest_html = NoHtml
    /\ now = StartTime
    /\ GEMINI_API_KEY = TRUE
    /\ OVERRIDES = <<>>
    /\ MATCH_THRESHOLD \in Thresholds
    /\ pc = "call"
    /\ history \in IsInHistoryHistories
    /\ topic_idx = 1
    /\ fetched_topic_articles = <<>>
    /\ headlines_to_send_to_llm = <<>>
    /\ full_articles_map_this_run = <<>>
    /\ selected_content_raw_from_llm = <<>>
    /\ gemini_processed_content = <<>>
    /\ final_digest_for_display_and_state = <<>>
    /\ llm = NoRequest
    /\ io = NoWrites
    /\ run = 1
    /\ shown = {}
    /\ call \in {[fn |-> "is_in_history", article_title |-> t] : t \in IsInHistoryTitles}
    /\ ret = <<>>

ApplyIsInHistory ==
    /\ pc = "call"
    /\ call.fn = "is_in_history"
    /\ ret' = <<is_in_history(call.article_title, history)>>
    /\ pc' = "returned"
    /\ UNCHANGED <<history_file, content_json, digest_html, now, GEMINI_API_KEY, OVERRIDES,
                   MATCH_THRESHOLD, history, topic_idx, fetched_topic_articles,
                   headlines_to_send_to_llm, full_articles_map_this_run,
                   selected_content_raw_from_llm, gemini_processed_content,
                   final_digest_for_display_and_state, llm, io, run, shown, call>>

NextIsInHistory == ApplyIsInHistory

SpecIsInHistory == InitIsInHistory /\ [][NextIsInHistory]_vars

---------------------------------------------------------------------------
(* Properties of one run *)

\* the headlines of the candidate set
CandidateTitles ==
    UNION {Range(headlines_to_send_to_llm[i].v) : i \in DOMAIN headlines_to_send_to_llm}

\* the titles of the snapshot this run wrote
SnapshotTitles ==
    IF io.snapshot = "ok"
    THEN UNION {{content_json.data[i].v.articles[j].title :
                    j \in DOMAIN content_json.data[i].v.articles} :
                i \in DOMAIN content_json.data}
    ELSE {}

\* every title this run holds as a candidate or as part of its digest
TitlesInPlay ==
    CandidateTitles
    \cup {full_articles_map_this_run[i].v.title : i \in DOMAIN full_articles_map_this_run}
    \cup DigestTitles(gemini_processed_content)
    \cup DigestTitles(final_digest_for_display_and_state)
    \cup SnapshotTitles

\* the normalized terms the overrides ban
BannedTerms ==
    {normalize(OVERRIDES[i].k) : i \in {j \in DOMAIN OVERRIDES : OVERRIDES[j].v = "ban"}}

HasBannedTerm(title, terms) == \E b \in terms : IsSubstr(b, normalize(title))

\* the positions <<topic, article>> of a digest
Positions(digest) ==
    UNION {{<<i, j>> : j \in DOMAIN digest[i].v} : i \in DOMAIN digest}

\* C4: every topic of the candidate set maps to a non-empty list of headlines,
\* and a topic is in the candidate set exactly when one of the articles fetched
\* for it passed the history filter and the banned-term filter.
C4_CandidateTopicsNonEmpty ==
    /\ \A i \in DOMAIN headlines_to_send_to_llm : headlines_to_send_to_llm[i].v # <<>>
    /\ (pc \in {"fetch", "select"} /\ topic_idx > 1) =>
          LET passed == {j \in DOMAIN fetched_topic_articles :
                            /\ ~is_in_history(fetched_topic_articles[j].title, history)
                            /\ ~HasBannedTerm(fetched_topic_articles[j].title,
                                              BannedTerms \ {<<>>})}
          IN  Has(headlines_to_send_to_llm, TOPIC_WEIGHTS[topic_idx - 1]) <=> passed # {}

\* all the articles fetched for the last topic were filtered out and the topic
\* is absent, while the first topic is a candidate
C4_Witness ==
    /\ pc = "select"
    /\ fetched_topic_articles # <<>>
    /\ ~Has(headlines_to_send_to_llm, TOPIC_WEIGHTS[Len(TOPIC_WEIGHTS)])
    /\ Has(headlines_to_send_to_llm, TOPIC_WEIGHTS[1])

\* C5, as stated: no title among the candidates or in the digest contains a
\* normalized banned term as a substring.
C5_NoBannedTermAtAll ==
    \A t \in TitlesInPlay : ~HasBannedTerm(t, BannedTerms)

\* C5: no title among the candidates, in the lookup, in the digest or in the
\* written snapshot contains a non-empty normalized banned term as a substring,
\* whatever the selector returned.
C5_NoBannedTitle ==
    \A t \in TitlesInPlay : ~HasBannedTerm(t, BannedTerms \ {<<>>})

\* a banned article was fetched, the selector returned a headline holding the
\* banned term, and the reconciliation still emitted an article
C5_Witness ==
    /\ pc = "sort"
    /\ gemini_processed_content # <<>>
    /\ \E j \in DOMAIN fetched_topic_articles :
          HasBannedTerm(fetched_topic_articles[j].title, BannedTerms \ {<<>>})
    /\ \E i \in DOMAIN llm.returned : \E j \in DOMAIN llm.returned[i].v :
          HasBannedTerm(llm.returned[i].v[j], BannedTerms \ {<<>>})

NoRepeatedStory(digest) ==
    \A p, q \in Positions(digest) :
        p # q => normalize(digest[p[1]].v[p[2]].title) # normalize(digest[q[1]].v[q[2]].title)

\* C6: no two articles of the digest, under one topic or under two, have the
\* same normalized title.
C6_NoRepeatedStory ==
    /\ NoRepeatedStory(gemini_processed_content)
    /\ NoRepeatedStory(final_digest_for_display_and_state)

\* whether a returned headline resolves to a lookup key, exactly or by substring
Resolves(headline, key) ==
    LET n == normalize(headline)
    IN  n # <<>> /\ (IsSubstr(n, key) \/ IsSubstr(key, n))

\* two headlines within the caps of the returned mapping resolve to one lookup
\* entry, which the digest holds next to another article
C6_Witness ==
    /\ pc = "sort"
    /\ llm.status = "answered"
    /\ Cardinality(Positions(gemini_processed_content)) >= 2
    /\ \E m \in DOMAIN full_articles_map_this_run :
          /\ full_articles_map_this_run[m].v.title \in DigestTitles(gemini_processed_content)
          /\ Cardinality({p \in Positions(selected_content_raw_from_llm) :
                            /\ p[2] <= MAX_ARTICLES_PER_TOPIC
                            /\ Resolves(selected_content_raw_from_llm[p[1]].v[p[2]],
                                        full_articles_map_this_run[m].k)}) >= 2

WithinCaps(digest) ==
    /\ Len(digest) <= MAX_TOPICS
    /\ \A i \in DOMAIN digest : Len(digest[i].v) <= MAX_ARTICLES_PER_TOPIC

\* C7: the digest, and the snapshot written from it, hold at most MAX_TOPICS
\* topics and at most MAX_ARTICLES_PER_TOPIC articles under each topic.
C7_WithinCaps ==
    /\ WithinCaps(gemini_processed_content)
    /\ WithinCaps(final_digest_for_display_and_state)
    /\ io.snapshot = "ok" =>
          /\ Len(content_json.data) <= MAX_TOPICS
          /\ \A i \in DOMAIN content_json.data :
                Len(content_json.data[i].v.articles) <= MAX_ARTICLES_PER_TOPIC

\* the selector returned more topics than MAX_TOPICS and, for a topic it kept,
\* more headlines than MAX_ARTICLES_PER_TOPIC; the digest is at both caps
C7_Witness ==
    /\ pc = "sort"
    /\ Len(llm.returned) > MAX_TOPICS
    /\ Len(gemini_processed_content) = MAX_TOPICS
    /\ \E i \in 1..MAX_TOPICS :
          /\ Len(llm.returned[i].v) > MAX_ARTICLES_PER_TOPIC
          /\ Has(gemini_processed_content, llm.returned[i].k)
          /\ Len(Get(gemini_processed_content, llm.returned[i].k)) = MAX_ARTICLES_PER_TOPIC

\* whether the pubDate of an entry does not parse to a time before the limit
NotOlderThanRetention(article_entry) ==
    ~(/\ Parses(article_entry.pubDate)
      /\ parsedate_to_datetime(article_entry.pubDate) < now - HISTORY_RETENTION_DAYS)

\* C8: the pruning step leaves, under every key, exactly the entries whose
\* pubDate is missing, does not parse, or parses to a time at or after now
\* minus the retention days, in their order; a key left with no entry is
\* deleted and no key is added.
C8_PruneRemovesExactlyOld ==
    [][pc = "prune" =>
          /\ Keys(history') \subseteq Keys(history)
          /\ \A i \in DOMAIN history :
                LET remaining == SelectSeq(history[i].v, NotOlderThanRetention)
                IN  IF remaining = <<>> THEN ~Has(history', history[i].k)
                    ELSE /\ Has(history', history[i].k)
                         /\ Get(history', history[i].k) = remaining]_vars

\* after the pruning of a history with entries before, at and after the limit,
\* with an unparsable and with a missing pubDate: the entries before the limit
\* are gone and the others remain
C8_Witness ==
    /\ pc = "persist"
    /\ history_file = HistoryWithOldEntries
    /\ ~Has(history, <<"e">>)
    /\ Has(history, <<"d">>)
    /\ Get(history, <<"d">>) =
           <<Entry(tD, Date(now - HISTORY_RETENTION_DAYS)), Entry(tEs, BadDate),
             Entry(<<>>, NoDate)>>

\* C9: when the request to the selector fails or its response yields nothing,
\* the run goes on with an empty selection: it renders nothing, a snapshot it
\* writes is the empty object, and the history commit runs, prunes the entries
\* older than the retention limit and writes the history.
C9_FailedSelectionStillCommits ==
    llm.status \in {"failed", "empty"} =>
        /\ pc \in {"sort", "write", "append", "prune", "persist", "done"}
        /\ gemini_processed_content = <<>>
        /\ final_digest_for_display_and_state = <<>>
        /\ io.html = "none"
        /\ io.snapshot = "ok" => content_json = File(<<>>)
        /\ pc \in {"append", "prune", "persist", "done"} => io.snapshot # "none"
        /\ pc \in {"persist", "done"} =>
              \A i \in DOMAIN history :
                  /\ history[i].v # <<>>
                  /\ \A j \in DOMAIN history[i].v : NotOlderThanRetention(history[i].v[j])
        /\ pc = "done" =>
              /\ io.history # "none"
              /\ io.history = "ok" => history_file = File(history)

\* the request failed, the snapshot was written empty over the previous one,
\* and the history was written without the entries that had expired
C9_Witness ==
    /\ pc = "done"
    /\ llm.status = "failed"
    /\ digest_html = PreviousHtml
    /\ content_json = File(<<>>)
    /\ io.history = "ok"
    /\ history_file = File(history)
    /\ Has(history, <<"d">>)
    /\ ~Has(history, <<"e">>)

\* C10: the snapshot a run wrote holds exactly the topics of the run's digest,
\* in the order the sort gave them, each with exactly its articles, and the
\* digest holds exactly the topics and articles the reconciliation selected;
\* nothing else is in the snapshot, which is empty when nothing was selected.
C10_SnapshotIsThisRunsDigest ==
    io.snapshot = "ok" =>
        /\ content_json.state = "json"
        /\ Len(content_json.data) = Len(final_digest_for_display_and_state)
        /\ \A i \in DOMAIN final_digest_for_display_and_state :
              /\ content_json.data[i].k = final_digest_for_display_and_state[i].k
              /\ content_json.data[i].v.articles = final_digest_for_display_and_state[i].v
        /\ Keys(final_digest_for_display_and_state) = Keys(gemini_processed_content)
        /\ \A k \in Keys(gemini_processed_content) :
              Get(final_digest_for_display_and_state, k) = Get(gemini_processed_content, k)

\* a run that started with the previous snapshot on disk wrote two topics, in
\* an order the sort changed
C10_Witness ==
    /\ pc = "done"
    /\ io.snapshot = "ok"
    /\ Len(final_digest_for_display_and_state) = 2
    /\ final_digest_for_display_and_state[1].k = gemini_processed_content[2].k
    /\ Len(content_json.data) = 2
    /\ content_json.data[1].k = gemini_processed_content[2].k
    /\ digest_html.state = "html"
    /\ digest_html.data = final_digest_for_display_and_state

---------------------------------------------------------------------------
(* Properties of is_in_history *)

\* the token sets of the titles stored under any key of a history
PastTokenSets(hist) ==
    {TokenSet(hist[p[1]].v[p[2]].title) : p \in Positions(hist)}

\* |a \cap b| / |a \cup b| >= t, for a union that is not empty
SimilarityAtLeast(a, b, t) ==
    Cardinality(a \cap b) * t.den >= t.num * Cardinality(a \cup b)

\* C2, as stated: is_in_history returns true exactly when some entry under any
\* key has a Jaccard similarity with the title of at least MATCH_THRESHOLD.
C2_TrueIffSomeEntrySimilar ==
    pc = "returned" =>
        (ret = <<TRUE>> <=>
            \E b \in PastTokenSets(history) :
                /\ TokenSet(call.article_title) \cup b # {}
                /\ SimilarityAtLeast(TokenSet(call.article_title), b, MATCH_THRESHOLD))

\* C2: is_in_history returns true exactly when the title has a token and some
\* entry under any key has a token and a Jaccard similarity with the title of
\* at least MATCH_THRESHOLD; a similarity equal to the threshold is a match.
C2_TrueIffSomeTokenedEntrySimilar ==
    pc = "returned" =>
        (ret = <<TRUE>> <=>
            /\ TokenSet(call.article_title) # {}
            /\ \E b \in PastTokenSets(history) :
                  /\ b # {}
                  /\ SimilarityAtLeast(TokenSet(call.article_title), b, MATCH_THRESHOLD))

\* a match at the default threshold in a history where no entry is more
\* similar to the title than the threshold
C2_Witness ==
    /\ pc = "returned"
    /\ ret = <<TRUE>>
    /\ MATCH_THRESHOLD = DefaultThreshold
    /\ \A b \in PastTokenSets(history) :
          Cardinality(TokenSet(call.article_title) \cap b) * MATCH_THRESHOLD.den
              <= MATCH_THRESHOLD.num * Cardinality(TokenSet(call.article_title) \cup b)

\* C3: for a title without a token is_in_history returns false, whatever the
\* history holds and whatever the threshold is.
C3_EmptyTitleNeverMatches ==
    (pc = "returned" /\ TokenSet(call.article_title) = {}) => ret = <<FALSE>>

\* a title of punctuation only, a threshold of 0 and a history holding an
\* entry with tokens: the answer is false
C3_Witness ==
    /\ pc = "returned"
    /\ call.article_title = tBang
    /\ MATCH_THRESHOLD.num = 0
    /\ \E b \in PastTokenSets(history) : b # {}
    /\ ret = <<FALSE>>

---------------------------------------------------------------------------
(* Properties of consecutive runs *)

\* whether a history holds an entry with the normalized title of `title`
HistoryHolds(hist, title) ==
    \E p \in Positions(hist) : normalize(hist[p[1]].v[p[2]].title) = normalize(title)

---------------------------------------------------------------------------
(* Properties of the outputs and of the error paths of one run *)

\* C11: no step of a run whose digest is empty changes the rendered output;
\* such a run, once past the credential check, still writes the snapshot (the
\* empty object, unless the write fails) and still writes the history (the
\* pruned history, unless the write fails).
C11_EmptyRunKeepsRenderedOutput ==
    /\ [][final_digest_for_display_and_state' = <<>> => digest_html' = digest_html]_vars
    /\ [](final_digest_for_display_and_state = <<>> =>
             /\ io.html = "none"
             /\ pc \in {"append", "prune", "persist"} => io.snapshot # "none"
             /\ io.snapshot = "ok" => content_json = File(<<>>)
             /\ (pc = "done" /\ GEMINI_API_KEY) =>
                   /\ io.snapshot # "none"
                   /\ io.history # "none"
                   /\ io.history = "ok" => history_file = File(history))

\* the selector answered, no headline resolved to a candidate: the rendered
\* output of the previous run is still there, the snapshot is the empty object
\* and the history was written
C11_Witness ==
    /\ pc = "done"
    /\ llm.status = "answered"
    /\ final_digest_for_display_and_state = <<>>
    /\ digest_html = PreviousHtml
    /\ io.snapshot = "ok"
    /\ content_json = File(<<>>)
    /\ io.history = "ok"
    /\ history_file = File(history)

\* C12: without the credential the run ends at the credential check: nothing
\* is fetched, no request is made to the selector, nothing is written, and no
\* step changes the history file, the snapshot or the rendered output.
C12_NoCredentialNoEffect ==
    /\ [][~GEMINI_API_KEY =>
             /\ history_file' = history_file
             /\ content_json' = content_json
             /\ digest_html' = digest_html]_vars
    /\ [](~GEMINI_API_KEY =>
             /\ pc \in {"load", "credential", "done"}
             /\ topic_idx = 1
             /\ fetched_topic_articles = <<>>
             /\ headlines_to_send_to_llm = <<>>
             /\ llm = NoRequest
             /\ io = NoWrites)

\* the run ended without the credential: the history still holds its expired
\* entries, the snapshot and the rendered output are those of the previous run
C12_Witness ==
    /\ pc = "done"
    /\ ~GEMINI_API_KEY
    /\ history_file = HistoryWithOldEntries
    /\ content_json = PreviousSnapshot
    /\ digest_html = PreviousHtml
    /\ io = NoWrites

\* C13: after a failed write of the snapshot the history commit still runs:
\* the run appends the digest, prunes and attempts the history write; a failed
\* history write ends the run like a successful one, with the files written
\* before left as they are; and no step from the writes on changes the digest.
C13_WriteFailuresDoNotAbort ==
    /\ [][(pc \in {"write", "append", "prune", "persist"}) =>
             /\ final_digest_for_display_and_state' = final_digest_for_display_and_state
             /\ gemini_processed_content' = gemini_processed_content]_vars
    /\ [][pc = "persist" =>
             /\ pc' = "done"
             /\ io'.history \in {"ok", "failed"}
             /\ io'.history = "ok" => history_file' = File(history)
             /\ io'.history = "failed" => history_file' = history_file
             /\ content_json' = content_json
             /\ digest_html' = digest_html]_vars
    /\ [](io.snapshot = "failed" =>
             /\ pc \in {"append", "prune", "persist", "done"}
             /\ pc \in {"prune", "persist", "done"} =>
                   \A t \in DigestTitles(final_digest_for_display_and_state) :
                       TokenSet(t) # {} => HistoryHolds(history, t)
             /\ pc \in {"persist", "done"} =>
                   \A p \in Positions(history) :
                       NotOlderThanRetention(history[p[1]].v[p[2]])
             /\ pc = "done" => io.history # "none")

\* the snapshot write failed and left the previous snapshot; the digest was
\* rendered, appended to the history, and the history was written
C13_Witness ==
    /\ pc = "done"
    /\ io = [html |-> "ok", snapshot |-> "failed", history |-> "ok"]
    /\ content_json = PreviousSnapshot
    /\ final_digest_for_display_and_state # <<>>
    /\ digest_html.data = final_digest_for_display_and_state
    /\ history_file = File(history)
    /\ \A t \in DigestTitles(final_digest_for_display_and_state) : HistoryHolds(history, t)

---------------------------------------------------------------------------
(* JSON values and the text of a response *)

(* A JSON value, as json.loads and the tool-call arguments give it, is a    *)
(* tuple that starts with its type: <<"null">>, <<"bool", b>>, <<"num", n>>, *)
(* <<"str", text>>, <<"list", items>> or <<"dict", members>>, the members a  *)
(* sequence of <<key, value>> with text keys.  The text of a response is a   *)
(* sequence of lexemes, each a tuple that starts with its kind: the          *)
(* punctuation <<"{">> <<"}">> <<"[">> <<"]">> <<",">> <<":">>, white space  *)
(* <<"ws">>, the fence <<"fence">>, a word after the fence <<"word", w>>,   *)
(* a literal name <<"lit", name>>, a number <<"num", n>>, and a string in    *)
(* double, single or typographic quotes: <<"dq", text>>, <<"sq", text>>,     *)
(* <<"smart", text>>.                                                        *)

Tag(v) == v[1]

JNull == <<"null">>
JNum(n) == <<"num", n>>
JStr(text) == <<"str", text>>
JList(items) == <<"list", items>>
JDict(members) == <<"dict", members>>

\* d.get(key): the value of the last member with the key, None without one
JGet(d, key) ==
    LET hits == {i \in DOMAIN d[2] : d[2][i][1] = key}
    IN  IF hits = {} THEN JNull
        ELSE d[2][CHOOSE i \in hits : \A j \in hits : j <= i][2]

\* d[key] = value
JPut(members, key, value) ==
    IF \E i \in DOMAIN members : members[i][1] = key
    THEN [i \in DOMAIN members |->
             IF members[i][1] = key THEN <<key, value>> ELSE members[i]]
    ELSE Append(members, <<key, value>>)

Ws == <<"ws">>
\* the three backquotes that open and close a Markdown code block
Fence == <<"fence">>

\* json.dumps(value), with its ", " and ": " separators
RECURSIVE json_dumps(_)
RECURSIVE DumpItems(_)
RECURSIVE DumpMembers(_)
json_dumps(value) ==
    CASE Tag(value) = "null" -> <<<<"lit", "null">>>>
      [] Tag(value) = "bool" -> <<<<"lit", IF value[2] THEN "true" ELSE "false">>>>
      [] Tag(value) = "num" -> <<<<"num", value[2]>>>>
      [] Tag(value) = "str" -> <<<<"dq", value[2]>>>>
      [] Tag(value) = "list" -> <<<<"[">>>> \o DumpItems(value[2]) \o <<<<"]">>>>
      [] Tag(value) = "dict" -> <<<<"{">>>> \o DumpMembers(value[2]) \o <<<<"}">>>>

DumpItems(items) ==
    IF items = <<>> THEN <<>>
    ELSE json_dumps(Head(items))
         \o (IF Tail(items) = <<>> THEN <<>> ELSE <<<<",">>, Ws>> \o DumpItems(Tail(items)))

DumpMembers(members) ==
    IF members = <<>> THEN <<>>
    ELSE <<<<"dq", Head(members)[1]>>, <<":">>, Ws>> \o json_dumps(Head(members)[2])
         \o (IF Tail(members) = <<>> THEN <<>> ELSE <<<<",">>, Ws>> \o DumpMembers(Tail(members)))

\* str.strip() and the \s* of the patterns, over lexemes
RECURSIVE LStrip(_)
LStrip(text) ==
    IF text # <<>> /\ Tag(Head(text)) = "ws" THEN LStrip(Tail(text)) ELSE text

RECURSIVE RStrip(_)
RStrip(text) ==
    IF text # <<>> /\ Tag(text[Len(text)]) = "ws"
    THEN RStrip(SubSeq(text, 1, Len(text) - 1)) ELSE text

StripText(text) == RStrip(LStrip(text))

\* re.sub(r"^```(?:json)?\s*", "", text)
StripOpeningFence(text) ==
    IF text # <<>> /\ Tag(Head(text)) = "fence"
    THEN LET after == Tail(text)
         IN  IF after # <<>> /\ Head(after) = <<"word", "json">>
             THEN LStrip(Tail(after)) ELSE LStrip(after)
    ELSE text

\* re.sub(r"\s*```$", "", text)
StripClosingFence(text) ==
    IF text # <<>> /\ Tag(text[Len(text)]) = "fence"
    THEN RStrip(SubSeq(text, 1, Len(text) - 1))
    ELSE text

---------------------------------------------------------------------------
(* json.loads, ast.literal_eval and safe_parse_json *)

Failed == [ok |-> FALSE, v |-> JNull, rest |-> <<>>]

Parsed(value, rest) == [ok |-> TRUE, v |-> value, rest |-> rest]

\* the value a literal name stands for: true, false, null for json.loads;
\* True, False, None for ast.literal_eval
LiteralValue(name, python) ==
    IF python
    THEN CASE name = "True" -> <<TRUE, <<"bool", TRUE>>>>
           [] name = "False" -> <<TRUE, <<"bool", FALSE>>>>
           [] name = "None" -> <<TRUE, JNull>>
           [] OTHER -> <<FALSE, JNull>>
    ELSE CASE name = "true" -> <<TRUE, <<"bool", TRUE>>>>
           [] name = "false" -> <<TRUE, <<"bool", FALSE>>>>
           [] name = "null" -> <<TRUE, JNull>>
           [] OTHER -> <<FALSE, JNull>>

\* One value at the head of the text and the text after it.  json.loads takes
\* strings in double quotes only and no comma before a closing bracket;
\* ast.literal_eval (python) takes single quotes and such a comma too.
RECURSIVE ParseValue(_, _)
RECURSIVE ParseItems(_, _, _)
RECURSIVE ParseMembers(_, _, _)
ParseValue(text, python) ==
    LET t == LStrip(text)
    IN  IF t = <<>> THEN Failed
        ELSE LET lex == Head(t)
                 kind == Tag(lex)
             IN  CASE kind = "dq" -> Parsed(JStr(lex[2]), Tail(t))
                   [] kind = "sq" -> IF python THEN Parsed(JStr(lex[2]), Tail(t)) ELSE Failed
                   [] kind = "num" -> Parsed(JNum(lex[2]), Tail(t))
                   [] kind = "lit" -> IF LiteralValue(lex[2], python)[1]
                                      THEN Parsed(LiteralValue(lex[2], python)[2], Tail(t))
                                      ELSE Failed
                   [] kind = "[" -> ParseItems(Tail(t), <<>>, python)
                   [] kind = "{" -> ParseMembers(Tail(t), <<>>, python)
                   [] OTHER -> Failed

ParseItems(text, items, python) ==
    LET t == LStrip(text)
    IN  IF t = <<>> THEN Failed
        ELSE IF Tag(Head(t)) = "]"
        THEN IF items = <<>> \/ python THEN Parsed(JList(items), Tail(t)) ELSE Failed
        ELSE LET r == ParseValue(t, python)
                 after == LStrip(r.rest)
             IN  IF ~r.ok \/ after = <<>> THEN Failed
                 ELSE IF Tag(Head(after)) = ","
                 THEN ParseItems(Tail(after), Append(items, r.v), python)
                 ELSE IF Tag(Head(after)) = "]"
                 THEN Parsed(JList(Append(items, r.v)), Tail(after))
                 ELSE Failed

ParseMembers(text, members, python) ==
    LET t == LStrip(text)
    IN  IF t = <<>> THEN Failed
        ELSE IF Tag(Head(t)) = "}"
        THEN IF members = <<>> \/ python THEN Parsed(JDict(members), Tail(t)) ELSE Failed
        ELSE IF ~(Tag(Head(t)) = "dq" \/ (python /\ Tag(Head(t)) = "sq")) THEN Failed
        ELSE LET colon == LStrip(Tail(t))
             IN  IF colon = <<>> \/ Tag(Head(colon)) # ":" THEN Failed
                 ELSE LET r == ParseValue(Tail(colon), python)
                          after == LStrip(r.rest)
                      IN  IF ~r.ok \/ after = <<>> THEN Failed
                          ELSE IF Tag(Head(after)) = ","
                          THEN ParseMembers(Tail(after), JPut(members, Head(t)[2], r.v), python)
                          ELSE IF Tag(Head(after)) = "}"
                          THEN Parsed(JDict(JPut(members, Head(t)[2], r.v)), Tail(after))
                          ELSE Failed

\* json.loads(text): one value and nothing after it
json_loads(text) ==
    LET r == ParseValue(text, FALSE)
    IN  IF r.ok /\ LStrip(r.rest) = <<>> THEN r ELSE Failed

\* ast.literal_eval(text)
literal_eval(text) ==
    LET r == ParseValue(text, TRUE)
    IN  IF r.ok /\ LStrip(r.rest) = <<>> THEN r ELSE Failed

\* re.sub(r",\s*([\]}])", r"\1", text)
RECURSIVE RemoveTrailingCommas(_)
RemoveTrailingCommas(text) ==
    IF text = <<>> THEN <<>>
    ELSE LET after == LStrip(Tail(text))
         IN  IF Tag(Head(text)) = "," /\ after # <<>> /\ Tag(Head(after)) \in {"]", "}"}
             THEN RemoveTrailingCommas(after)
             ELSE <<Head(text)>> \o RemoveTrailingCommas(Tail(text))

\* lines 289-291: typographic quotes to plain ones, commas before a closing
\* bracket removed, True, False, None to true, false, null
CleanText(text) ==
    LET requoted == [i \in DOMAIN text |->
                        IF Tag(text[i]) = "smart" THEN <<"dq", text[i][2]>> ELSE text[i]]
        uncommaed == RemoveTrailingCommas(requoted)
    IN  [i \in DOMAIN uncommaed |->
            IF Tag(uncommaed[i]) # "lit" THEN uncommaed[i]
            ELSE CASE uncommaed[i][2] = "True" -> <<"lit", "true">>
                   [] uncommaed[i][2] = "False" -> <<"lit", "false">>
                   [] uncommaed[i][2] = "None" -> <<"lit", "null">>
                   [] OTHER -> uncommaed[i]]

Returns(value) == <<"return", value>>

\* an exception leaving the function
Raises == <<"raise">>

\* lines 274-307.  The pattern of line 301 has a look-behind of variable
\* width, which re refuses to compile: a text that reaches it raises re.error,
\* which the handler of line 305 does not catch.
safe_parse_json(raw_json_string) ==
    IF raw_json_string = <<>> THEN Returns(JDict(<<>>))
    ELSE LET text == StripText(StripClosingFence(StripOpeningFence(StripText(raw_json_string))))
         IN  IF text = <<>> THEN Returns(JDict(<<>>))
             ELSE IF json_loads(text).ok THEN Returns(json_loads(text).v)
             ELSE LET parsed_data == literal_eval(CleanText(text))
                  IN  IF parsed_data.ok
                      THEN IF Tag(parsed_data.v) = "dict" THEN Returns(parsed_data.v)
                           ELSE Returns(JDict(<<>>))
                      ELSE Raises

---------------------------------------------------------------------------
(* prioritize_with_gemini, lines 414-562: the handling of the response *)

\* A response is [raised, finish_reason, parts]: raised when generate_content
\* raised instead of returning; the parts of the first candidate, none when
\* there is no candidate or no content.  A part is
\* <<"function_call", name, args>> or <<"text", text>>.
Response(finish_reason, parts) ==
    [raised |-> FALSE, finish_reason |-> finish_reason, parts |-> parts]

RequestRaised == [raised |-> TRUE, finish_reason |-> 0, parts |-> <<>>]

\* a key of the schema, as a text of one symbol
Name(key) == <<key>>

STOP == 1
MALFORMED_FUNCTION_CALL == 10

\* text.strip(), over the characters of a name
RECURSIVE StripSpaces(_)
StripSpaces(text) ==
    IF text = <<>> THEN text
    ELSE IF Head(text) = " " THEN StripSpaces(Tail(text))
    ELSE IF text[Len(text)] = " " THEN StripSpaces(SubSeq(text, 1, Len(text) - 1))
    ELSE text

\* list(dict.fromkeys(items)): the first occurrence of each item, in order
RECURSIVE Unique(_, _)
Unique(items, kept) ==
    IF items = <<>> THEN kept
    ELSE Unique(Tail(items),
                IF \E i \in DOMAIN kept : kept[i] = Head(items) THEN kept
                ELSE Append(kept, Head(items)))

\* [h for h in items if isinstance(h, str)]
RECURSIVE Strings(_)
Strings(items) ==
    IF items = <<>> THEN <<>>
    ELSE (IF Tag(Head(items)) = "str" THEN <<Head(items)[2]>> ELSE <<>>) \o Strings(Tail(items))

\* the headlines of an entry replacing those its topic already has
AddHeadlines_Replace(transformed_output, topic_name_clean, headlines) ==
    Put(transformed_output, topic_name_clean, Unique(headlines, <<>>))

\* lines 489-493 and 521-525: extend or set, then de-duplicate
AddHeadlines(transformed_output, topic_name_clean, headlines) ==
    Put(transformed_output, topic_name_clean,
        Unique(IF Has(transformed_output, topic_name_clean)
               THEN Get(transformed_output, topic_name_clean) \o headlines
               ELSE headlines, <<>>))

\* lines 476-498: the entries of a tool call
RECURSIVE TransformToolEntries(_, _)
TransformToolEntries(entries_list_proto, transformed_output) ==
    IF entries_list_proto = <<>> THEN transformed_output
    ELSE LET entry_proto == Head(entries_list_proto)
             topic_name == JGet(entry_proto, Name("topic_name"))
             headlines_proto == JGet(entry_proto, Name("headlines"))
             headlines_python_list ==
                 IF Tag(headlines_proto) = "list" THEN Strings(headlines_proto[2]) ELSE <<>>
         IN  TransformToolEntries(
                 Tail(entries_list_proto),
                 IF Tag(entry_proto) # "dict" THEN transformed_output
                 ELSE IF /\ Tag(topic_name) = "str"
                         /\ StripSpaces(topic_name[2]) # <<>>
                         /\ headlines_python_list # <<>>
                 THEN AddHeadlines(transformed_output, StripSpaces(topic_name[2]),
                                   headlines_python_list)
                 ELSE transformed_output)

\* the entries of a parsed text merged without line 525, the de-duplication
RECURSIVE TransformTextEntries_NoDedup(_, _)
TransformTextEntries_NoDedup(entries, transformed_output) ==
    IF entries = <<>> THEN transformed_output
    ELSE LET entry == Head(entries)
             topic_name == JGet(entry, Name("topic_name"))
             headlines_list == JGet(entry, Name("headlines"))
             valid_headlines == Strings(headlines_list[2])
             topic_name_clean == StripSpaces(topic_name[2])
         IN  TransformTextEntries_NoDedup(
                 Tail(entries),
                 IF Tag(entry) # "dict" THEN transformed_output
                 ELSE IF /\ Tag(topic_name) = "str"
                         /\ StripSpaces(topic_name[2]) # <<>>
                         /\ Tag(headlines_list) = "list"
                         /\ valid_headlines # <<>>
                 THEN Put(transformed_output, topic_name_clean,
                          IF Has(transformed_output, topic_name_clean)
                          THEN Get(transformed_output, topic_name_clean) \o valid_headlines
                          ELSE valid_headlines)
                 ELSE transformed_output)

\* lines 514-530: the entries of a parsed text
RECURSIVE TransformTextEntries(_, _)
TransformTextEntries(entries, transformed_output) ==
    IF entries = <<>> THEN transformed_output
    ELSE LET entry == Head(entries)
             topic_name == JGet(entry, Name("topic_name"))
             headlines_list == JGet(entry, Name("headlines"))
             valid_headlines == Strings(headlines_list[2])
         IN  TransformTextEntries(
                 Tail(entries),
                 IF Tag(entry) # "dict" THEN transformed_output
                 ELSE IF /\ Tag(topic_name) = "str"
                         /\ StripSpaces(topic_name[2]) # <<>>
                         /\ Tag(headlines_list) = "list"
                 THEN IF valid_headlines # <<>>
                      THEN AddHeadlines(transformed_output, StripSpaces(topic_name[2]),
                                        valid_headlines)
                      ELSE transformed_output
                 ELSE transformed_output)

\* the index of the last part with a function call, 0 without one
FirstFunctionCall_Last(parts) ==
    LET calls == {i \in DOMAIN parts : Tag(parts[i]) = "function_call"}
    IN  IF calls = {} THEN 0 ELSE CHOOSE i \in calls : \A j \in calls : i >= j

\* the index of the first part with a function call, 0 without one
FirstFunctionCall(parts) ==
    LET calls == {i \in DOMAIN parts : Tag(parts[i]) = "function_call"}
    IN  IF calls = {} THEN 0 ELSE CHOOSE i \in calls : \A j \in calls : i <= j

\* "".join(part.text for part in parts)
RECURSIVE TextContent(_)
TextContent(parts) ==
    IF parts = <<>> THEN <<>>
    ELSE (IF Tag(Head(parts)) = "text" THEN Head(parts)[2] ELSE <<>>) \o TextContent(Tail(parts))

\* lines 414-562: the mapping returned for a response
prioritize_with_gemini(response) ==
    LET parts == response.parts
        function_call_part == FirstFunctionCall(parts)
    IN  IF response.raised THEN <<>>
        ELSE IF response.finish_reason = MALFORMED_FUNCTION_CALL /\ function_call_part = 0
        THEN <<>>
        ELSE IF function_call_part # 0
        THEN IF parts[function_call_part][2] = "format_digest_selection"
             THEN LET args == parts[function_call_part][3]
                      entries_list_proto ==
                          IF Tag(args) = "dict" THEN JGet(args, Name("selected_digest_entries"))
                          ELSE JNull
                  IN  IF Tag(entries_list_proto) # "list" THEN <<>>
                      ELSE TransformToolEntries(entries_list_proto[2], <<>>)
             ELSE <<>>
        ELSE IF parts # <<>> /\ StripText(TextContent(parts)) # <<>>
        THEN LET parsed_json == safe_parse_json(TextContent(parts))
             IN  \* an exception of safe_parse_json, and the TypeError of line 510
                 \* on a value that is no dict, reach the handler of line 551
                 IF Tag(parsed_json) = "raise" THEN <<>>
                 ELSE IF Tag(parsed_json[2]) # "dict" THEN <<>>
                 ELSE IF Tag(JGet(parsed_json[2], Name("selected_digest_entries"))) = "list"
                 THEN TransformTextEntries(JGet(parsed_json[2], Name("selected_digest_entries"))[2],
                                           <<>>)
                 ELSE <<>>
        ELSE <<>>

---------------------------------------------------------------------------
(* prioritize_with_gemini applied to a response on its own *)

EntryOf(topic_name, headlines) ==
    JDict(<<<<Name("topic_name"), topic_name>>, <<Name("headlines"), headlines>>>>)

\* entries a payload may hold: well-formed ones, one whose topic name has
\* spaces around it and whose headlines repeat and hold a number, and ones
\* the schema does not allow
PayloadEntries ==
    {EntryOf(JStr(TopicAB), JList(<<JStr(tAb)>>)),
     EntryOf(JStr(<<" ">> \o TopicAB \o <<" ">>),
             JList(<<JStr(tCs), JNum(1), JStr(tAb), JStr(tCs)>>)),
     EntryOf(JStr(TopicC), JList(<<JStr(tCs)>>)),
     EntryOf(JStr(TopicC), JStr(tCs)),
     EntryOf(JStr(TopicC), JList(<<JNum(1)>>)),
     EntryOf(JStr(<<" ">>), JList(<<JStr(tCs)>>)),
     EntryOf(JNull, JList(<<JStr(tCs)>>)),
     JDict(<<<<Name("headlines"), JList(<<JStr(tCs)>>)>>>>),
     JStr(TopicC)}

MaxEntries == 2

Payloads ==
    {JDict(<<>>), JDict(<<<<Name("selected_digest_entries"), JNull>>>>)}
    \cup {JDict(<<<<Name("selected_digest_entries"), JList(entries)>>>>) :
             entries \in UNION {[1..n -> PayloadEntries] : n \in 0..MaxEntries}}

\* the payload as the arguments of a call of format_digest_selection
ToolCall(payload) ==
    Response(STOP, <<<<"function_call", "format_digest_selection", payload>>>>)

\* the payload as JSON text in a Markdown code block, with or without the
\* word json after the opening fence
FencedJson(payload, word) ==
    Response(STOP, <<<<"text", <<Fence>> \o word \o <<Ws>> \o json_dumps(payload)
                               \o <<Ws, Fence>>>>>>)

JsonWord == <<<<"word", "json">>>>

\* the payload as other responses: plain JSON text, a call of another tool,
\* Python-style text with a comma before the closing brace, text cut short,
\* a malformed call reported with text next to it
OtherResponses(payload) ==
    {Response(STOP, <<<<"text", json_dumps(payload)>>>>),
     Response(STOP, <<<<"function_call", "other_tool", payload>>>>),
     Response(STOP, <<<<"text", <<<<"{">>, <<"sq", Name("selected_digest_entries")>>, <<":">>,
                                  <<"[">>, <<"]">>, <<",">>, <<"}">>>>>>>>),
     Response(STOP, <<<<"text", SubSeq(json_dumps(payload), 1, 1)>>>>),
     Response(MALFORMED_FUNCTION_CALL, <<<<"text", json_dumps(payload)>>>>),
     Response(STOP, <<>>),
     RequestRaised}

\* responses of several parts: the payload as text before a call of another
\* tool; a call without entries before the payload as text and as a second
\* call; the payload as text, then as a call, then a call of another tool
MixedResponses(payload) ==
    {Response(STOP, <<<<"text", json_dumps(payload)>>,
                      <<"function_call", "other_tool", payload>>>>),
     Response(STOP, <<<<"function_call", "format_digest_selection", JDict(<<>>)>>,
                      <<"text", json_dumps(payload)>>,
                      <<"function_call", "format_digest_selection", payload>>>>),
     Response(STOP, <<<<"text", json_dumps(payload)>>,
                      <<"function_call", "format_digest_selection", payload>>,
                      <<"function_call", "other_tool", payload>>>>)}

ResponsesOf(payload) ==
    {ToolCall(payload), FencedJson(payload, JsonWord), FencedJson(payload, <<>>)}
    \cup OtherResponses(payload) \cup MixedResponses(payload)

InitResponse ==
    /\ history_file = Absent
    /\ content_json = Absent
    /\ digest_html = NoHtml
    /\ now = StartTime
    /\ GEMINI_API_KEY = TRUE
    /\ OVERRIDES = <<>>
    /\ MATCH_THRESHOLD = DefaultThreshold
    /\ pc = "call"
    /\ history = <<>>
    /\ topic_idx = 1
    /\ fetched_topic_articles = <<>>
    /\ headlines_to_send_to_llm = <<>>
    /\ full_articles_map_this_run = <<>>
    /\ selected_content_raw_from_llm = <<>>
    /\ gemini_processed_content = <<>>
    /\ final_digest_for_display_and_state = <<>>
    /\ llm = NoRequest
    /\ io = NoWrites
    /\ run = 1
    /\ shown = {}
    /\ call \in UNION {{[fn |-> "prioritize_with_gemini", payload |-> payload,
                         response |-> response] : response \in ResponsesOf(payload)} :
                       payload \in Payloads}
    /\ ret = <<>>

HandleResponse ==
    /\ pc = "call"
    /\ call.fn = "prioritize_with_gemini"
    /\ ret' = <<prioritize_with_gemini(call.response)>>
    /\ pc' = "returned"
    /\ UNCHANGED <<history_file, content_json, digest_html, now, GEMINI_API_KEY, OVERRIDES,
                   MATCH_THRESHOLD, history, topic_idx, fetched_topic_articles,
                   headlines_to_send_to_llm, full_articles_map_this_run,
                   selected_content_raw_from_llm, gemini_processed_content,
                   final_digest_for_display_and_state, llm, io, run, shown, call>>

NextResponse == HandleResponse

SpecResponse == InitResponse /\ [][NextResponse]_vars

---------------------------------------------------------------------------
(* safe_parse_json applied to a text on its own *)

\* the text of a payload with a comma before its closing brace
WithTrailingComma(text) ==
    SubSeq(text, 1, Len(text) - 1) \o <<<<",">>, text[Len(text)]>>

\* texts the selector may answer with for a payload: its JSON, plain and in a
\* code block, with a comma before the closing brace, cut short after the
\* first lexemes, and the JSON of its list of entries alone
TextsOf(payload) ==
    {json_dumps(payload),
     <<Fence>> \o JsonWord \o <<Ws>> \o json_dumps(payload) \o <<Ws, Fence>>,
     <<Ws, Fence, Ws>> \o json_dumps(payload) \o <<Fence, Ws>>,
     WithTrailingComma(json_dumps(payload)),
     SubSeq(json_dumps(payload), 1, 1),
     json_dumps(JGet(payload, Name("selected_digest_entries")))}

\* other texts: nothing, white space, an empty code block, prose, an object
\* with a bare key, with single quotes, with typographic quotes, with the
\* names of Python, with those of JSON next to single quotes, and a number
OtherTexts ==
    {<<>>,
     <<Ws>>,
     <<Fence, Ws, Fence>>,
     <<<<"lit", "Here">>>>,
     <<<<"{">>, <<"lit", "selected_digest_entries">>, <<":">>, <<"[">>, <<"]">>, <<"}">>>>,
     <<<<"{">>, <<"sq", Name("selected_digest_entries")>>, <<":">>, <<"[">>, <<"]">>, <<"}">>>>,
     <<<<"{">>, <<"smart", Name("selected_digest_entries")>>, <<":">>, <<"[">>, <<"]">>, <<"}">>>>,
     <<<<"{">>, <<"dq", Name("selected_digest_entries")>>, <<":">>, <<"lit", "None">>, <<"}">>>>,
     <<<<"{">>, <<"sq", Name("selected_digest_entries")>>, <<":">>, <<"lit", "null">>, <<"}">>>>,
     <<<<"num", 1>>>>}

InitParse ==
    /\ history_file = Absent
    /\ content_json = Absent
    /\ digest_html = NoHtml
    /\ now = StartTime
    /\ GEMINI_API_KEY = TRUE
    /\ OVERRIDES = <<>>
    /\ MATCH_THRESHOLD = DefaultThreshold
    /\ pc = "call"
    /\ history = <<>>
    /\ topic_idx = 1
    /\ fetched_topic_articles = <<>>
    /\ headlines_to_send_to_llm = <<>>
    /\ full_articles_map_this_run = <<>>
    /\ selected_content_raw_from_llm = <<>>
    /\ gemini_processed_content = <<>>
    /\ final_digest_for_display_and_state = <<>>
    /\ llm = NoRequest
    /\ io = NoWrites
    /\ run = 1
    /\ shown = {}
    /\ call \in {[fn |-> "safe_parse_json", raw_json_string |-> text] :
                    text \in OtherTexts \cup UNION {TextsOf(payload) : payload \in Payloads}}
    /\ ret = <<>>

ApplySafeParseJson ==
    /\ pc = "call"
    /\ call.fn = "safe_parse_json"
    /\ ret' = <<safe_parse_json(call.raw_json_string)>>
    /\ pc' = "returned"
    /\ UNCHANGED <<history_file, content_json, digest_html, now, GEMINI_API_KEY, OVERRIDES,
                   MATCH_THRESHOLD, history, topic_idx, fetched_topic_articles,
                   headlines_to_send_to_llm, full_articles_map_this_run,
                   selected_content_raw_from_llm, gemini_processed_content,
                   final_digest_for_display_and_state, llm, io, run, shown, call>>

NextParse == ApplySafeParseJson

SpecParse == InitParse /\ [][NextParse]_vars

---------------------------------------------------------------------------
(* Properties of the handling of the response *)

\* C14: a response that carries a payload as JSON text in a Markdown code
\* block, and no tool call, yields the mapping that a response carrying the
\* same payload as the arguments of a format_digest_selection call yields.
C14_FencedTextParsedAsToolCall ==
    (/\ pc = "returned"
     /\ call.fn = "prioritize_with_gemini"
     /\ call.response \in {FencedJson(call.payload, JsonWord), FencedJson(call.payload, <<>>)})
        => ret = <<prioritize_with_gemini(ToolCall(call.payload))>>

\* a fenced payload of two entries for one topic, the second with spaces
\* around the name, a number among the headlines and repeated headlines: one
\* topic with each headline once, in the order of first appearance
C14_Witness ==
    /\ pc = "returned"
    /\ call.fn = "prioritize_with_gemini"
    /\ call.response = FencedJson(call.payload, JsonWord)
    /\ call.payload =
           JDict(<<<<Name("selected_digest_entries"),
                     JList(<<EntryOf(JStr(TopicAB), JList(<<JStr(tAb)>>)),
                             EntryOf(JStr(<<" ">> \o TopicAB \o <<" ">>),
                                     JList(<<JStr(tCs), JNum(1), JStr(tAb), JStr(tCs)>>))>>)>>>>)
    /\ ret = <<<<[k |-> TopicAB, v |-> <<tAb, tCs>>]>>>>

---------------------------------------------------------------------------
(* Properties of the reconciliation *)

\* the headlines of one topic without those whose normalized form is in
\* `forms` or is the form of an earlier headline of the list
RECURSIVE DropRepeatedTitles(_, _, _)
DropRepeatedTitles(titles, forms, kept) ==
    IF titles = <<>> THEN [titles |-> kept, forms |-> forms]
    ELSE DropRepeatedTitles(Tail(titles), forms \cup {normalize(Head(titles))},
                            IF normalize(Head(titles)) \in forms THEN kept
                            ELSE Append(kept, Head(titles)))

\* the returned mapping, cut to the caps, without every headline whose
\* normalized form is that of a headline before it in the pass
RECURSIVE DropRepeatedHeadlines(_, _)
DropRepeatedHeadlines(selected, forms) ==
    IF selected = <<>> THEN <<>>
    ELSE LET r == DropRepeatedTitles(TruncateTitles(Head(selected).v), forms, <<>>)
         IN  <<[k |-> Head(selected).k, v |-> r.titles]>>
             \o DropRepeatedHeadlines(Tail(selected), r.forms)

\* C15, as stated: a headline whose normalized form is that of a headline
\* handled before it in the pass contributes no article, so the digest is the
\* one the pass gives without those headlines.
C15_RepeatedHeadlineContributesNothing ==
    (pc = "sort" /\ llm.status = "answered") =>
        gemini_processed_content =
            ReconcileTopics(DropRepeatedHeadlines(selected_content_raw_from_llm, {}),
                            full_articles_map_this_run, <<>>, {})

---------------------------------------------------------------------------
(* Properties of the order of the digest *)

\* the pubDate of the first article of the i-th topic of the digest
FirstPubDate(i) == final_digest_for_display_and_state[i].v[1].pubDate

\* C16: the topics of the final digest are in descending order of the parsed
\* publish time of their first article, and a topic whose first article's date
\* does not parse has no topic after it whose date parses.
C16_TopicsNewestFirst ==
    \A i, j \in DOMAIN final_digest_for_display_and_state :
        i < j =>
            /\ (Parses(FirstPubDate(i)) /\ Parses(FirstPubDate(j))) =>
                   parsedate_to_datetime(FirstPubDate(i)) >= parsedate_to_datetime(FirstPubDate(j))
            /\ ~Parses(FirstPubDate(i)) => ~Parses(FirstPubDate(j))

\* the sort has moved a topic with a newer first article before the topic the
\* reconciliation had put first
C16_Witness ==
    /\ pc = "write"
    /\ Len(gemini_processed_content) = 2
    /\ Len(final_digest_for_display_and_state) = 2
    /\ final_digest_for_display_and_state[1] = gemini_processed_content[2]
    /\ final_digest_for_display_and_state[2] = gemini_processed_content[1]
    /\ parsedate_to_datetime(FirstPubDate(1)) > parsedate_to_datetime(FirstPubDate(2))

---------------------------------------------------------------------------
(* Properties of the request to the selector *)

\* C17: a run makes at most one request to the selector, and none when no
\* headline is left to send; when the request fails the selection is the
\* empty mapping and no second request is made.
C17_AtMostOneRequest ==
    /\ llm.requests <= 1
    /\ (pc \in {"select", "reconcile", "sort"} /\ headlines_to_send_to_llm = <<>>) =>
           llm = NoRequest
    /\ llm.status = "failed" =>
           /\ llm.requests = 1
           /\ selected_content_raw_from_llm = <<>>
           /\ gemini_processed_content = <<>>
           /\ final_digest_for_display_and_state = <<>>

\* a run whose one request failed has gone on to its end
C17_Witness ==
    /\ pc = "done"
    /\ llm.status = "failed"
    /\ llm.requests = 1
    /\ io.snapshot = "ok"
    /\ io.history = "ok"

---------------------------------------------------------------------------
(* Properties of the start of a run *)

\* C18: when history.json is absent or cannot be decoded at the start, the
\* run is not aborted: the load gives the empty history and goes on to the
\* next step, the history stays empty through the fetches, the selection and
\* the writing of the snapshot, and the history write that succeeds puts the
\* history of the run in the file.
C18_UnreadableHistoryIsEmpty ==
    /\ [][(history_file.state # "json") =>
              /\ (pc = "load") => (history' = <<>> /\ pc' = "credential")
              /\ (pc = "persist" /\ io'.history = "ok") => history_file' = File(history)]_vars
    /\ []((history_file.state # "json" /\ pc \notin {"load", "prune", "persist", "done"}) =>
              history = <<>>)

\* a run started on a file that cannot be decoded has written its snapshot
\* and is about to write the history it has built from the digest
C18_Witness ==
    /\ history_file = Corrupt
    /\ pc = "persist"
    /\ llm.status = "answered"
    /\ final_digest_for_display_and_state # <<>>
    /\ io.snapshot = "ok"
    /\ history # <<>>

---------------------------------------------------------------------------
(* Properties of the lookup of the candidates *)

\* the headline at a position <<topic, headline>> of the candidate set
CandidateAt(p) == headlines_to_send_to_llm[p[1]].v[p[2]]

\* p comes before q in the order the topics and their articles were gone through
Before(p, q) == p[1] < q[1] \/ (p[1] = q[1] /\ p[2] < q[2])

\* whether an article passes the history filter and the banned-term filter
PassesFilters(art) ==
    /\ ~is_in_history(art.title, history)
    /\ ~contains_banned_keyword(art.title, normalized_banned_terms)

\* the titles of the articles of a list that pass the filters, in order
RECURSIVE PassingTitles(_)
PassingTitles(articles) ==
    IF articles = <<>> THEN <<>>
    ELSE (IF PassesFilters(Head(articles)) THEN <<Head(articles).title>> ELSE <<>>)
         \o PassingTitles(Tail(articles))

\* C19: of the candidates of one normalized title the lookup holds the article
\* of the first, in the order of the topics and of their articles; every
\* article that passes the filters has its headline in the list of its topic,
\* whether the lookup took it or not.
C19_LookupKeepsFirstRegistered ==
    /\ [](\A p \in Positions(headlines_to_send_to_llm) :
             (\A q \in Positions(headlines_to_send_to_llm) :
                 Before(q, p) => normalize(CandidateAt(q)) # normalize(CandidateAt(p))) =>
                 /\ Has(full_articles_map_this_run, normalize(CandidateAt(p)))
                 /\ Get(full_articles_map_this_run, normalize(CandidateAt(p))).title
                        = CandidateAt(p)
                 /\ Get(full_articles_map_this_run, normalize(CandidateAt(p))).link
                        = headlines_to_send_to_llm[p[1]].k)
    /\ [][(pc = "filter" /\ PassingTitles(fetched_topic_articles) # <<>>) =>
              /\ Has(headlines_to_send_to_llm', TOPIC_WEIGHTS[topic_idx])
              /\ Get(headlines_to_send_to_llm', TOPIC_WEIGHTS[topic_idx])
                     = PassingTitles(fetched_topic_articles)]_vars

\* "Ab" of the first topic and "Ab!" of the second are both candidates, and
\* the lookup holds the article of the first topic
C19_Witness ==
    /\ pc = "select"
    /\ Has(headlines_to_send_to_llm, TopicAB)
    /\ Has(headlines_to_send_to_llm, TopicC)
    /\ tAb \in Range(Get(headlines_to_send_to_llm, TopicAB))
    /\ tAbBang \in Range(Get(headlines_to_send_to_llm, TopicC))
    /\ Get(full_articles_map_this_run, normalize(tAbBang)).title = tAb
    /\ Get(full_articles_map_this_run, normalize(tAbBang)).link = TopicAB

\* the first of the articles of a list that passes the filters and has the key
RECURSIVE FirstPassing(_, _)
FirstPassing(articles, key) ==
    IF PassesFilters(Head(articles)) /\ normalize(Head(articles).title) = key
    THEN Head(articles)
    ELSE FirstPassing(Tail(articles), key)

\* C20, as stated: the lookup is last-write-wins, it holds the article of the
\* last of the candidates of one normalized title.
C20_LookupKeepsLastRegistered ==
    \A p \in Positions(headlines_to_send_to_llm) :
        (\A q \in Positions(headlines_to_send_to_llm) :
            Before(p, q) => normalize(CandidateAt(q)) # normalize(CandidateAt(p))) =>
            /\ Get(full_articles_map_this_run, normalize(CandidateAt(p))).title = CandidateAt(p)
            /\ Get(full_articles_map_this_run, normalize(CandidateAt(p))).link
                   = headlines_to_send_to_llm[p[1]].k

\* C20, amended: the lookup is first-write-wins.  The step over the articles
\* of a topic replaces no entry the lookup holds, and a key it adds maps to
\* the first article of the topic that passes the filters and has the key.
C20_LookupEntryNeverReplaced ==
    [][(pc = "filter") =>
          /\ \A i \in DOMAIN full_articles_map_this_run :
                /\ i \in DOMAIN full_articles_map_this_run'
                /\ full_articles_map_this_run'[i] = full_articles_map_this_run[i]
          /\ \A key \in Keys(full_articles_map_this_run') \ Keys(full_articles_map_this_run) :
                Get(full_articles_map_this_run', key) = FirstPassing(fetched_topic_articles, key)]_vars

\* two candidates of one topic have one normalized title, and the lookup holds
\* the article of the first
C20_Witness ==
    /\ pc = "select"
    /\ Has(headlines_to_send_to_llm, TopicAB)
    /\ Get(headlines_to_send_to_llm, TopicAB) = <<tAbBang, tAb>>
    /\ normalize(tAbBang) = normalize(tAb)
    /\ Get(full_articles_map_this_run, normalize(tAb)).title = tAbBang

---------------------------------------------------------------------------
(* Properties of the mapping parsed from a tool call *)

\* the entries of a payload, none when selected_digest_entries is no list
EntriesOf(payload) ==
    LET entries == JGet(payload, Name("selected_digest_entries"))
    IN  IF Tag(entries) = "list" THEN entries[2] ELSE <<>>

\* k is the text `name` without the spaces around it, and is not empty
TrimOf(name, k) ==
    /\ k # <<>>
    /\ k[1] # " "
    /\ k[Len(k)] # " "
    /\ \E i \in DOMAIN name :
          /\ i + Len(k) - 1 <= Len(name)
          /\ SubSeq(name, i, i + Len(k) - 1) = k
          /\ \A n \in DOMAIN name : (n < i \/ n >= i + Len(k)) => name[n] = " "

\* the strings among the headlines of an entry, in order
StringHeadlines(entry) ==
    LET headlines == JGet(entry, Name("headlines"))
    IN  IF Tag(headlines) # "list" THEN <<>>
        ELSE LET strs == SelectSeq(headlines[2], LAMBDA h : Tag(h) = "str")
             IN  [i \in DOMAIN strs |-> strs[i][2]]

\* the entry has a topic_name that is a string with something else than
\* spaces, and a list of headlines with a string in it
Usable(entry) ==
    /\ Tag(entry) = "dict"
    /\ Tag(JGet(entry, Name("topic_name"))) = "str"
    /\ \E i \in DOMAIN JGet(entry, Name("topic_name"))[2] :
          JGet(entry, Name("topic_name"))[2][i] # " "
    /\ StringHeadlines(entry) # <<>>

\* the entry is usable and k is its topic name, trimmed
EntryNamed(entry, k) ==
    Usable(entry) /\ TrimOf(JGet(entry, Name("topic_name"))[2], k)

\* the string headlines of the usable entries named k, in the order of the payload
RECURSIVE HeadlinesUnder(_, _)
HeadlinesUnder(entries, k) ==
    IF entries = <<>> THEN <<>>
    ELSE (IF EntryNamed(Head(entries), k) THEN StringHeadlines(Head(entries)) ELSE <<>>)
         \o HeadlinesUnder(Tail(entries), k)

\* the place of the first x in a list that holds it
FirstIndex(list, x) ==
    CHOOSE i \in DOMAIN list : list[i] = x /\ \A j \in 1..(i - 1) : list[j] # x

\* C21: the mapping parsed from a tool call has, as keys, the trimmed,
\* non-empty topic names of the usable entries with their case kept, each
\* once; the value of a key is the non-empty list of the string headlines of
\* all the usable entries of that name, each string once, in the order of first
\* occurrence; an entry without a usable name or without a string headline
\* adds nothing and does not fail the parse.
C21_ToolCallMappingShape ==
    (/\ pc = "returned"
     /\ call.fn = "prioritize_with_gemini"
     /\ call.response = ToolCall(call.payload)) =>
        LET m == ret[1]
            entries == EntriesOf(call.payload)
        IN  /\ \A i \in DOMAIN m :
                  LET all == HeadlinesUnder(entries, m[i].k)
                  IN  /\ \E n \in DOMAIN entries : EntryNamed(entries[n], m[i].k)
                      /\ m[i].v # <<>>
                      /\ Range(m[i].v) = Range(all)
                      /\ \A a, b \in DOMAIN m[i].v :
                            a < b => /\ m[i].v[a] # m[i].v[b]
                                     /\ FirstIndex(all, m[i].v[a]) < FirstIndex(all, m[i].v[b])
                      /\ \A j \in DOMAIN m : j # i => m[j].k # m[i].k
            /\ \A n \in DOMAIN entries :
                  Usable(entries[n]) => \E i \in DOMAIN m : EntryNamed(entries[n], m[i].k)

\* a tool call with two entries for one topic, the second with spaces around
\* the name, a number among the headlines and a repeated headline, gives one
\* key with each headline once
C21_Witness ==
    /\ pc = "returned"
    /\ call.fn = "prioritize_with_gemini"
    /\ call.response = ToolCall(call.payload)
    /\ EntriesOf(call.payload) =
           <<EntryOf(JStr(TopicAB), JList(<<JStr(tAb)>>)),
             EntryOf(JStr(<<" ">> \o TopicAB \o <<" ">>),
                     JList(<<JStr(tCs), JNum(1), JStr(tAb), JStr(tCs)>>))>>
    /\ ret = <<<<[k |-> TopicAB, v |-> <<tAb, tCs>>]>>>>

---------------------------------------------------------------------------
(* Properties of the history within a run *)

\* what the load at the start of the run made of history.json
LoadedHistory == IF history_file.state = "json" THEN history_file.data ELSE <<>>

\* C22: within a run the history in memory is changed only by the commit at
\* the end: from the load to the call of update_history_file (duplicate
\* checks, candidates, selection, reconciliation, ordering, writing of the
\* snapshot) every step leaves it as it was loaded.
C22_HistoryChangedOnlyByCommit ==
    /\ [][(pc \in {"credential", "fetch", "filter", "select", "reconcile", "sort", "write"}) =>
              history' = history]_vars
    /\ []((pc \in {"credential", "fetch", "filter", "select", "reconcile", "sort", "write",
                   "append"}) => history = LoadedHistory)

\* a run that loaded entries, built a digest and wrote its snapshot is about
\* to commit with the history as loaded
C22_Witness ==
    /\ pc = "append"
    /\ history # <<>>
    /\ history = history_file.data
    /\ final_digest_for_display_and_state # <<>>
    /\ io.snapshot = "ok"

---------------------------------------------------------------------------
(* Properties of the resolution of one headline *)

\* the returned mapping at the end of the reconciliation, each list cut to
\* its first MAX_ARTICLES_PER_TOPIC headlines
CappedSelection ==
    [i \in DOMAIN selected_content_raw_from_llm |->
        [k |-> selected_content_raw_from_llm[i].k,
         v |-> SubSeq(selected_content_raw_from_llm[i].v, 1,
                      IF Len(selected_content_raw_from_llm[i].v) > MAX_ARTICLES_PER_TOPIC
                      THEN MAX_ARTICLES_PER_TOPIC
                      ELSE Len(selected_content_raw_from_llm[i].v))]]

\* the digest the pass has built when it has handled the topics before the
\* t-th and the first j headlines of the t-th
PassUpTo(t, j) ==
    ReconcileTopics([i \in 1..t |->
                        IF i < t THEN CappedSelection[i]
                        ELSE [k |-> CappedSelection[t].k,
                              v |-> SubSeq(CappedSelection[t].v, 1, j)]],
                    full_articles_map_this_run, <<>>, {})

\* the normalized form of the headline at <<topic, place>> of the selection
FormAt(p) == normalize(CappedSelection[p[1]].v[p[2]])

\* the lookup keys of the articles the pass holds before it handles p
ClaimedBefore(p) ==
    {normalize(a.title) : a \in Range(Flatten(PassUpTo(p[1], p[2] - 1)))}

\* the lookup entries not claimed before p whose key contains the form of
\* the headline at p or is contained in it
UnclaimedMatches(p) ==
    {i \in DOMAIN full_articles_map_this_run :
        /\ full_articles_map_this_run[i].k \notin ClaimedBefore(p)
        /\ \/ IsSubstr(FormAt(p), full_articles_map_this_run[i].k)
           \/ IsSubstr(full_articles_map_this_run[i].k, FormAt(p))}

\* the headline at p leaves the digest as it was
DroppedAt(p) == PassUpTo(p[1], p[2]) = PassUpTo(p[1], p[2] - 1)

\* the headline at p adds the article of the first unclaimed match, under
\* its topic
TakesFirstMatchAt(p) ==
    LET first == CHOOSE i \in UnclaimedMatches(p) : \A j \in UnclaimedMatches(p) : i <= j
        after == PassUpTo(p[1], p[2])
    IN  /\ Flatten(after) = Append(Flatten(PassUpTo(p[1], p[2] - 1)),
                                   full_articles_map_this_run[first].v)
        /\ after[Len(after)].k = CappedSelection[p[1]].k

\* the pass over the whole selection gives the digest of the run
PassGivesDigest ==
    gemini_processed_content =
        IF CappedSelection = <<>> THEN <<>>
        ELSE PassUpTo(Len(CappedSelection), Len(CappedSelection[Len(CappedSelection)].v))

\* C23, as stated: every selected headline without an exact match in the
\* lookup resolves to the first unclaimed lookup entry whose key contains its
\* normalized form or is contained in it, and is dropped when there is none.
C23_FallbackForEveryUnmatchedHeadline ==
    (pc = "sort" /\ llm.status = "answered") =>
        /\ PassGivesDigest
        /\ \A p \in Positions(CappedSelection) :
              ~Has(full_articles_map_this_run, FormAt(p)) =>
                  IF UnclaimedMatches(p) = {} THEN DroppedAt(p) ELSE TakesFirstMatchAt(p)

\* C23, amended: a selected headline whose normalized form is not empty and
\* has no exact match in the lookup resolves to the first lookup entry, in
\* insertion order, that is not yet claimed and whose key contains that form
\* or is contained in it; when there is none the headline is dropped and the
\* pass goes on with the next one.  A headline whose normalized form is empty
\* is dropped before the lookup.
C23_FallbackTakesFirstUnclaimedMatch ==
    (pc = "sort" /\ llm.status = "answered") =>
        /\ PassGivesDigest
        /\ \A p \in Positions(CappedSelection) :
              /\ (FormAt(p) # <<>> /\ ~Has(full_articles_map_this_run, FormAt(p))) =>
                     IF UnclaimedMatches(p) = {} THEN DroppedAt(p) ELSE TakesFirstMatchAt(p)
              /\ FormAt(p) = <<>> => DroppedAt(p)

\* a headline without an exact match had two unclaimed matches and took the
\* first, and another one of the pass had none and was dropped
C23_Witness ==
    /\ pc = "sort"
    /\ llm.status = "answered"
    /\ \E p, q \in Positions(CappedSelection) :
          /\ FormAt(q) # <<>>
          /\ ~Has(full_articles_map_this_run, FormAt(q))
          /\ UnclaimedMatches(q) = {}
          /\ FormAt(p) # <<>>
          /\ ~Has(full_articles_map_this_run, FormAt(p))
          /\ Cardinality(UnclaimedMatches(p)) >= 2
          /\ TakesFirstMatchAt(p)

---------------------------------------------------------------------------
(* Properties of the cap on the headlines of a topic *)

\* the articles the digest holds under the i-th topic of the selection
ArticlesOfTopic(i) ==
    IF Has(gemini_processed_content, selected_content_raw_from_llm[i].k)
    THEN Get(gemini_processed_content, selected_content_raw_from_llm[i].k)
    ELSE <<>>

\* C24: the headlines of a topic are cut to the first MAX_ARTICLES_PER_TOPIC
\* before any of them is looked at, so a headline beyond the cap contributes
\* no article: the digest is the one the pass gives on the cut lists, every
\* article of a topic is the match of a headline within the cap, and a topic
\* has no more articles than headlines with a non-empty form within the cap,
\* however many of these are empty, already claimed or without a match.
C24_HeadlinesCutBeforeFiltering ==
    (pc = "sort" /\ llm.status = "answered") =>
        /\ PassGivesDigest
        /\ \A i \in DOMAIN CappedSelection :
              /\ \A n \in DOMAIN ArticlesOfTopic(i) :
                    \E j \in DOMAIN CappedSelection[i].v :
                        Resolves(CappedSelection[i].v[j], normalize(ArticlesOfTopic(i)[n].title))
              /\ Len(ArticlesOfTopic(i)) <=
                     Cardinality({j \in DOMAIN CappedSelection[i].v :
                                     normalize(CappedSelection[i].v[j]) # <<>>})

\* the two headlines within the cap are one of empty form and one without a
\* match, the third is the title of a candidate no topic has claimed, and the
\* topic has no article
C24_Witness ==
    /\ pc = "sort"
    /\ llm.status = "answered"
    /\ \E i \in DOMAIN selected_content_raw_from_llm :
          /\ selected_content_raw_from_llm[i].v = <<tBang, tEs, tAb>>
          /\ Len(selected_content_raw_from_llm[i].v) > MAX_ARTICLES_PER_TOPIC
          /\ Has(full_articles_map_this_run, normalize(tAb))
          /\ normalize(tAb) \notin
                 {normalize(a.title) : a \in Range(Flatten(gemini_processed_content))}
          /\ ArticlesOfTopic(i) = <<>>

---------------------------------------------------------------------------
(* Properties of the commit of the history *)

\* the entries the history held under its i-th key before the append, none
\* for a key the append has added
EntriesBefore(i) == IF i \in DOMAIN history THEN history[i].v ELSE <<>>

C26_NoEmptyTopicKey ==
    /\ []((pc = "persist") => \A i \in DOMAIN history : history[i].v # <<>>)
    /\ []((io.history = "ok") =>
              /\ history_file.state = "json"
              /\ \A i \in DOMAIN history_file.data : history_file.data[i].v # <<>>)
    /\ [][(pc = "prune") =>
              \A i \in DOMAIN history :
                  (\A n \in DOMAIN history[i].v : ~NotOlderThanRetention(history[i].v[n]))
                      => history[i].k \notin Keys(history')]_vars

\* the commit has removed the key whose one entry was too old, kept the key
\* that had entries to keep, and written the file
C26_Witness ==
    /\ pc = "done"
    /\ io.history = "ok"
    /\ history_file.state = "json"
    /\ history_file.data = history
    /\ ~Has(history, <<"e">>)
    /\ Has(history, <<"d">>)
    /\ Len(Get(history, <<"d">>)) < Len(Get(HistoryWithOldEntries.data, <<"d">>))

---------------------------------------------------------------------------
(* Properties of safe_parse_json *)

\* C27, as stated: safe_parse_json is total, for every text it returns a
\* mapping and never raises.
C27_SafeParseJsonTotal ==
    (pc = "returned" /\ call.fn = "safe_parse_json") =>
        /\ ret[1] # Raises
        /\ Tag(ret[1]) = "return"
        /\ Tag(ret[1][2]) = "dict"

---------------------------------------------------------------------------
(* Properties of a response that holds a function call *)

\* the parts of the response of the call
PartsOfCall == call.response.parts

\* the places of the parts that are function calls
CallParts == {i \in DOMAIN PartsOfCall : Tag(PartsOfCall[i]) = "function_call"}

\* the first part that is a function call
FirstCallPart == PartsOfCall[CHOOSE i \in CallParts : \A j \in CallParts : i <= j]

\* C28: when the parts of the response hold a function call, the first such
\* part alone decides the result: it is the result for a response of that one
\* part, and the empty mapping when the name of the call is not
\* format_digest_selection or its arguments hold no usable entry, whatever the
\* text parts and the later function calls of the response hold.
C28_FirstFunctionCallDecides ==
    (/\ pc = "returned"
     /\ call.fn = "prioritize_with_gemini"
     /\ ~call.response.raised
     /\ CallParts # {}) =>
        /\ ret = <<prioritize_with_gemini(Response(call.response.finish_reason,
                                                   <<FirstCallPart>>))>>
        /\ FirstCallPart[2] # "format_digest_selection" => ret = <<<<>>>>
        /\ (\A n \in DOMAIN EntriesOf(FirstCallPart[3]) : ~Usable(EntriesOf(FirstCallPart[3])[n]))
               => ret = <<<<>>>>

\* the first call has no entry; the text after it and a second call hold a
\* payload that would give a mapping; the result is the empty mapping
C28_Witness ==
    /\ pc = "returned"
    /\ call.fn = "prioritize_with_gemini"
    /\ Len(PartsOfCall) = 3
    /\ PartsOfCall[1] = <<"function_call", "format_digest_selection", JDict(<<>>)>>
    /\ PartsOfCall[2] = <<"text", json_dumps(call.payload)>>
    /\ PartsOfCall[3] = <<"function_call", "format_digest_selection", call.payload>>
    /\ prioritize_with_gemini(ToolCall(call.payload)) # <<>>
    /\ prioritize_with_gemini(Response(STOP, <<PartsOfCall[2]>>)) # <<>>
    /\ ret = <<<<>>>>

---------------------------------------------------------------------------
(* Properties of the article the fallback returns *)

\* the article the headline at p has added to the digest
ArticleTakenAt(p) ==
    Flatten(PassUpTo(p[1], p[2]))[Len(Flatten(PassUpTo(p[1], p[2])))]

\* C29, as stated: every article placed in the digest through the substring
\* fallback has a non-empty normalized title and shares a token with the
\* selected headline; a candidate whose title normalizes to the empty string
\* is never the fallback match of a headline.
C29_FallbackMatchIsRelated ==
    (pc = "sort" /\ llm.status = "answered") =>
        \A p \in Positions(CappedSelection) :
            (/\ FormAt(p) # <<>>
             /\ ~Has(full_articles_map_this_run, FormAt(p))
             /\ ~DroppedAt(p)) =>
                /\ normalize(ArticleTakenAt(p).title) # <<>>
                /\ TokenSet(ArticleTakenAt(p).title)
                       \cap TokenSet(CappedSelection[p[1]].v[p[2]]) # {}

====
